---- MODULE Spec2Model ----
(***************************************************************************)
(* Transcript reconciliation of the transcript toolkit:                    *)
(* process_transcript of src/audio_transcriber/convert_json_transcript.py. *)
(*                                                                         *)
(* Times are the numbers of the data model, modelled as integers; a key    *)
(* that is absent from an item or a segment is NoTime / NoLabel.  The      *)
(* midpoint (start+end)/2 is kept doubled (start+end) and compared with    *)
(* doubled bounds, so that no fraction is needed.  Python dictionaries     *)
(* keep insertion order: they are sequences of [key, val] records.         *)
(***************************************************************************)
EXTENDS Integers, Sequences, FiniteSets, TLC

\* ---------------------------------------------------------------- bounds
\* Spec: payloads whose items and segments follow one another in slots
MaxItems == 2
MaxTurns == 2
MaxLabelled == 3
\* SpecMatch: one word against a list of segments that overlap
MaxSegs == 3
MaxTime == 2
\* SpecNearest: one word against segments at different distances from it
NearSegs == 2
NearTime == 4
\* SpecCover: one word, possibly labelled, against wider segments
CoverSegs == 2
CoverTime == 3

\* ------------------------------------------------------- absent keys
NoTime == -1
NoLabel == "<absent>"

\* Malformed diarization data.  A segment that is no object is the JSON null;
\* a speaker count that is no number is a text such as "two".
Null == [null |-> TRUE]
IsObject(x) == "speaker_label" \in DOMAIN x
CountAsText == -2

\* Python truthiness of item.get('start_time'): None and 0.0 are falsy.
TruthyTime(t) == t # NoTime /\ t # 0
\* Python truthiness of x.get('speaker_label'): None and "" are falsy.
TruthyLabel(l) == l # NoLabel /\ l # ""
\* 'speaker_label' in x : the key is present, whatever its value.
HasLabel(x) == x.speaker_label # NoLabel

\* ------------------------------------------------ ordered dictionaries
DictHas(d, k) == \E i \in 1..Len(d) : d[i].key = k
DictIndex(d, k) == CHOOSE i \in 1..Len(d) : d[i].key = k
DictGet(d, k, default) == IF DictHas(d, k) THEN d[DictIndex(d, k)].val ELSE default
\* Mutant of DictAppend: the new element replaces the list of the key
DictAppend_Overwrites(d, k, x) ==
    IF DictHas(d, k)
    THEN [i \in 1..Len(d) |-> IF d[i].key = k THEN [key |-> k, val |-> <<x>>] ELSE d[i]]
    ELSE Append(d, [key |-> k, val |-> <<x>>])

\* d.setdefault(k, []).append(x)
DictAppend(d, k, x) ==
    IF DictHas(d, k)
    THEN [i \in 1..Len(d) |->
            IF d[i].key = k THEN [key |-> k, val |-> Append(d[i].val, x)] ELSE d[i]]
    ELSE Append(d, [key |-> k, val |-> <<x>>])
\* d[k] = v
DictSet(d, k, v) ==
    IF DictHas(d, k)
    THEN [i \in 1..Len(d) |-> IF d[i].key = k THEN [key |-> k, val |-> v] ELSE d[i]]
    ELSE Append(d, [key |-> k, val |-> v])
\* next(iter(d.keys()), default)
FirstKey(d, default) == IF Len(d) > 0 THEN d[1].key ELSE default

SeqsUpTo(S, n) == UNION {[1..k -> S] : k \in 0..n}

\* sorted(labels): the labels of the model in string order
LabelOrder == <<"spk_0", "spk_1", "spk_2">>
RECURSIVE SortedLabelsFrom(_, _)
SortedLabelsFrom(S, i) ==
    IF i > Len(LabelOrder) THEN <<>>
    ELSE (IF LabelOrder[i] \in S THEN <<LabelOrder[i]>> ELSE <<>>)
         \o SortedLabelsFrom(S, i + 1)
SortedLabels(S) == SortedLabelsFrom(S, 1)

\* ------------------------------------------------------------- strings
\* ' '.join(words)
RECURSIVE Join(_)
Join(ws) ==
    IF Len(ws) = 0 THEN ""
    ELSE IF Len(ws) = 1 THEN ws[1]
    ELSE ws[1] \o " " \o Join(Tail(ws))

\* Word contents are tokens without white space, or the empty string:
\* ' '.join(words).strip() is empty exactly when every word is empty.
BlankText(ws) == \A i \in 1..Len(ws) : ws[i] = ""

\* ' '.join(words).rstrip(): the trailing empty words leave only blanks
RECURSIVE DropTrailingEmpty(_)
DropTrailingEmpty(ws) ==
    IF Len(ws) > 0 /\ ws[Len(ws)] = ""
    THEN DropTrailingEmpty(SubSeq(ws, 1, Len(ws) - 1))
    ELSE ws

\* A user's answer is a sequence of characters: name.strip(), and the string
RECURSIVE StripLeft(_)
StripLeft(cs) == IF Len(cs) > 0 /\ cs[1] = " " THEN StripLeft(Tail(cs)) ELSE cs
RECURSIVE StripRight(_)
StripRight(cs) ==
    IF Len(cs) > 0 /\ cs[Len(cs)] = " "
    THEN StripRight(SubSeq(cs, 1, Len(cs) - 1))
    ELSE cs
\* Mutant of Strip: the answer is taken as it was typed
Strip_Nothing(cs) == cs

Strip(cs) == StripRight(StripLeft(cs))
RECURSIVE StrOf(_)
StrOf(cs) == IF Len(cs) = 0 THEN "" ELSE cs[1] \o StrOf(Tail(cs))

\* ------------------------------------------------- schema normalisation
\* {x['speaker_label'] for x in xs if 'speaker_label' in x}
LabelSet(xs) == {xs[i].speaker_label : i \in {j \in 1..Len(xs) : HasLabel(xs[j])}}

\* speaker_labels_data.get('segments', []) of the list or the dict format;
\* the empty object {} has no segments and no count
ExplicitSegments(results) ==
    IF results.sl \in {"dict", "list"} THEN results.segments ELSE <<>>

\* .get('speakers', 0) / .get('speakers_count', 0), then the count deduced
\* from the segments when it was not explicit
ExplicitCount(results) ==
    IF results.sl \in {"dict", "list"} THEN results.count ELSE 0

\* Mutant of DeducedCount: the count is never deduced from the segments
DeducedCount_ExplicitOnly(results) == ExplicitCount(results)

DeducedCount(results) ==
    IF ExplicitCount(results) = 0 /\ ExplicitSegments(results) # <<>>
    THEN Cardinality(LabelSet(ExplicitSegments(results)))
    ELSE ExplicitCount(results)

\* Grouping of consecutive labelled pronunciation items into segments.
\* cur holds the open segment (a sequence of length 0 or 1).  item['end_time']
\* and item['start_time'] raise KeyError when the key is absent: ok = FALSE.
RECURSIVE ReconstructFrom(_, _, _)
ReconstructFrom(items, cur, acc) ==
    IF Len(items) = 0 THEN [ok |-> TRUE, segs |-> acc \o cur]
    ELSE LET item == Head(items) IN
         IF item.type = "pronunciation" /\ HasLabel(item)
         THEN IF Len(cur) > 0 /\ cur[1].speaker_label = item.speaker_label
              THEN IF item.end_time = NoTime
                   THEN [ok |-> FALSE, segs |-> <<>>]
                   ELSE ReconstructFrom(Tail(items),
                            <<[cur[1] EXCEPT !.end_time = item.end_time]>>, acc)
              ELSE IF item.start_time = NoTime \/ item.end_time = NoTime
                   THEN [ok |-> FALSE, segs |-> <<>>]
                   ELSE ReconstructFrom(Tail(items),
                            <<[speaker_label |-> item.speaker_label,
                               start_time |-> item.start_time,
                               end_time |-> item.end_time]>>,
                            acc \o cur)
         ELSE ReconstructFrom(Tail(items), cur, acc)

\* Mutant of ReconstructSegments: an item without a label, or a punctuation
\* mark, closes the open segment
RECURSIVE ReconstructBreaking(_, _, _)
ReconstructBreaking(items, cur, acc) ==
    IF Len(items) = 0 THEN [ok |-> TRUE, segs |-> acc \o cur]
    ELSE LET item == Head(items) IN
         IF item.type = "pronunciation" /\ HasLabel(item)
         THEN IF Len(cur) > 0 /\ cur[1].speaker_label = item.speaker_label
              THEN IF item.end_time = NoTime
                   THEN [ok |-> FALSE, segs |-> <<>>]
                   ELSE ReconstructBreaking(Tail(items),
                            <<[cur[1] EXCEPT !.end_time = item.end_time]>>, acc)
              ELSE IF item.start_time = NoTime \/ item.end_time = NoTime
                   THEN [ok |-> FALSE, segs |-> <<>>]
                   ELSE ReconstructBreaking(Tail(items),
                            <<[speaker_label |-> item.speaker_label,
                               start_time |-> item.start_time,
                               end_time |-> item.end_time]>>,
                            acc \o cur)
         ELSE ReconstructBreaking(Tail(items), <<>>, acc \o cur)

ReconstructSegments_UnlabelledBreaks(items) == ReconstructBreaking(items, <<>>, <<>>)

ReconstructSegments(items) == ReconstructFrom(items, <<>>, <<>>)

\* Line 197: speaker_labels_data[0].get(...) on a first element that is no
\* object raises AttributeError, which line 246 does not catch
LookupRaises(results) == results.sl = "list_of_text"

\* Line 207: 'speaker_label' in segment raises TypeError on a null segment;
\* line 246 catches it, with speaker_segments already assigned
CountRaises(results) ==
    /\ ExplicitCount(results) = 0
    /\ \E j \in 1..Len(ExplicitSegments(results)) : ~IsObject(ExplicitSegments(results)[j])

\* Lines 192-249: the segments and the speaker count, or the early return.
Normalize(results) ==
    LET segs == ExplicitSegments(results)
        n1 == DeducedCount(results)
        n2 == Cardinality(LabelSet(results.items))
        rec == ReconstructSegments(results.items)
    IN  IF CountRaises(results)
        THEN [returns |-> FALSE, segments |-> segs, num |-> 1]
        ELSE
        IF n1 = 0 /\ Len(results.items) > 0
        THEN IF n2 > 0
             THEN IF Len(segs) = 0
                  THEN IF rec.ok
                       THEN [returns |-> FALSE, segments |-> rec.segs, num |-> n2]
                       ELSE [returns |-> FALSE, segments |-> segs, num |-> 1]
                  ELSE [returns |-> FALSE, segments |-> segs, num |-> n2]
             ELSE [returns |-> FALSE, segments |-> segs, num |-> 1]
        ELSE IF n1 = 0
             THEN [returns |-> TRUE, segments |-> segs, num |-> 0]
             ELSE [returns |-> FALSE, segments |-> segs, num |-> n1]

\* ------------------------------------------------------- speaker names
TruthyLabelSet(xs) ==
    {xs[i].speaker_label : i \in {j \in 1..Len(xs) : TruthyLabel(xs[j].speaker_label)}}

\* Lines 255-261: the labels the user is asked to name, sorted
PresentSpeakerLabels(segs, items) ==
    SortedLabels(IF Len(segs) > 0 THEN TruthyLabelSet(segs) ELSE TruthyLabelSet(items))

\* Line 281: next((seg label for seg in segments if seg label), 'spk_0')
RECURSIVE FirstTruthyLabel(_)
FirstTruthyLabel(segs) ==
    IF Len(segs) = 0 THEN "spk_0"
    ELSE IF TruthyLabel(Head(segs).speaker_label) THEN Head(segs).speaker_label
    ELSE FirstTruthyLabel(Tail(segs))

DefaultNames(segs) == <<[key |-> FirstTruthyLabel(segs), val |-> "Speaker"]>>

\* Line 257 reads seg.get of every segment; the generator of line 281 reads
\* the segments up to the first one with a truthy label.  On a null segment
\* seg.get raises AttributeError.
HasNull(segs) == \E j \in 1..Len(segs) : ~IsObject(segs[j])
RECURSIVE NullBeforeLabel(_)
NullBeforeLabel(segs) ==
    IF Len(segs) = 0 THEN FALSE
    ELSE IF ~IsObject(Head(segs)) THEN TRUE
    ELSE IF TruthyLabel(Head(segs).speaker_label) THEN FALSE
    ELSE NullBeforeLabel(Tail(segs))

\* ------------------------------------------------------ time ranges
\* Lines 306-314: a segment enters speaker_time_ranges only with a truthy
\* label, a truthy start_time and a truthy end_time
ValidSegment(seg) ==
    /\ TruthyLabel(seg.speaker_label)
    /\ TruthyTime(seg.start_time)
    /\ TruthyTime(seg.end_time)

\* Lines 304-325: speaker -> list of (start, end), in order of insertion
RECURSIVE TimeRangesFrom(_, _)
TimeRangesFrom(segs, acc) ==
    IF Len(segs) = 0 THEN acc
    ELSE LET seg == Head(segs) IN
         TimeRangesFrom(Tail(segs),
             IF ValidSegment(seg)
             THEN DictAppend(acc, seg.speaker_label, <<seg.start_time, seg.end_time>>)
             ELSE acc)

SpeakerTimeRanges(segs) == TimeRangesFrom(segs, <<>>)

\* -------------------------------------------------------------- matcher
\* Line 330 and line 336: the items the matcher looks at
IsWord(item) == item.type = "pronunciation" /\ item.alternatives
HasTiming(item) == TruthyTime(item.start_time) /\ TruthyTime(item.end_time)

\* twice the midpoint of line 342
Mid2(item) == item.start_time + item.end_time

\* Line 356: item_midpoint >= start and item_midpoint <= end
Contains(r, m2) == m2 >= 2 * r[1] /\ m2 <= 2 * r[2]

\* Lines 353-360: the first speaker, in dictionary order, with a range
\* that contains the midpoint; "" when there is none
RECURSIVE ContainmentFrom(_, _)
ContainmentFrom(ranges, m2) ==
    IF Len(ranges) = 0 THEN ""
    ELSE IF \E j \in 1..Len(Head(ranges).val) : Contains(Head(ranges).val[j], m2)
         THEN Head(ranges).key
         ELSE ContainmentFrom(Tail(ranges), m2)

\* Mutant of ContainmentMatch: the speakers are tried in reverse order
ContainmentMatch_LastSpeaker(ranges, m2) ==
    ContainmentFrom([i \in 1..Len(ranges) |-> ranges[Len(ranges) + 1 - i]], m2)

ContainmentMatch(ranges, m2) == ContainmentFrom(ranges, m2)

\* Lines 367-372, doubled
Distance2(r, m2) ==
    IF m2 < 2 * r[1] THEN 2 * r[1] - m2
    ELSE IF m2 > 2 * r[2] THEN m2 - 2 * r[2]
    ELSE 0

\* Mutant of Nearer: the distance is not compared, the first range is kept
Nearer_FirstKept(best, d, speaker) ==
    IF Len(best) = 0 THEN <<d, speaker>> ELSE best

\* Line 374: a range replaces the best one only when strictly nearer.
\* best is <<>> (min_distance = inf) or <<distance, speaker>>.
Nearer(best, d, speaker) ==
    IF Len(best) = 0 \/ d < best[1] THEN <<d, speaker>> ELSE best

RECURSIVE NearestInRanges(_, _, _, _)
NearestInRanges(rs, speaker, m2, best) ==
    IF Len(rs) = 0 THEN best
    ELSE NearestInRanges(Tail(rs), speaker, m2,
                         Nearer(best, Distance2(Head(rs), m2), speaker))

RECURSIVE NearestFrom(_, _, _)
NearestFrom(ranges, m2, best) ==
    IF Len(ranges) = 0 THEN best
    ELSE NearestFrom(Tail(ranges), m2,
                     NearestInRanges(Head(ranges).val, Head(ranges).key, m2, best))

\* Lines 363-376
NearestMatch(ranges, m2) ==
    IF Len(NearestFrom(ranges, m2, <<>>)) = 0 THEN ""
    ELSE NearestFrom(ranges, m2, <<>>)[2]

\* Mutant of MatchItem: the time ranges are tried before the item's label
MatchItem_RangesFirst(item, ranges) ==
    IF ~IsWord(item) THEN ""
    ELSE IF ~HasTiming(item) THEN ""
    ELSE IF ContainmentMatch(ranges, Mid2(item)) # ""
         THEN ContainmentMatch(ranges, Mid2(item))
    ELSE IF TruthyLabel(item.speaker_label) THEN item.speaker_label
    ELSE IF Len(ranges) > 0 THEN NearestMatch(ranges, Mid2(item))
    ELSE ""

\* Lines 330-376 for one item: the matched speaker, "" when the item is
\* skipped or finds no speaker
MatchItem(item, ranges) ==
    IF ~IsWord(item) THEN ""
    ELSE IF ~HasTiming(item) THEN ""
    ELSE IF TruthyLabel(item.speaker_label) THEN item.speaker_label
    ELSE IF ContainmentMatch(ranges, Mid2(item)) # ""
         THEN ContainmentMatch(ranges, Mid2(item))
    ELSE IF Len(ranges) > 0 THEN NearestMatch(ranges, Mid2(item))
    ELSE ""

Matched(items, ranges) == [i \in 1..Len(items) |-> MatchItem(items[i], ranges)]

\* Lines 379-383: speaker -> words, in order of the first word of each
RECURSIVE SpeakerTextsFrom(_, _, _)
SpeakerTextsFrom(items, ranges, acc) ==
    IF Len(items) = 0 THEN acc
    ELSE SpeakerTextsFrom(Tail(items), ranges,
             IF MatchItem(Head(items), ranges) # ""
             THEN DictAppend(acc, MatchItem(Head(items), ranges), Head(items).content)
             ELSE acc)

SpeakerTexts(items, ranges) == SpeakerTextsFrom(items, ranges, <<>>)

\* ------------------------------------------------------------ assembler
\* min(start for start, _ in ranges)
EarliestStart(rs) ==
    CHOOSE t \in {rs[j][1] : j \in 1..Len(rs)} :
        \A u \in {rs[j][1] : j \in 1..Len(rs)} : t <= u

\* Lines 391-396: only the speakers that have time ranges are listed
RECURSIVE OrderedFrom(_, _)
OrderedFrom(texts, ranges) ==
    IF Len(texts) = 0 THEN <<>>
    ELSE (IF DictHas(ranges, Head(texts).key)
          THEN <<[speaker |-> Head(texts).key,
                  earliest |-> EarliestStart(DictGet(ranges, Head(texts).key, <<>>))]>>
          ELSE <<>>)
         \o OrderedFrom(Tail(texts), ranges)

\* list.sort(key=earliest) is stable: insertion after the last element
\* that is not greater
RECURSIVE InsertSorted(_, _)
InsertSorted(sorted, x) ==
    IF Len(sorted) = 0 THEN <<x>>
    ELSE IF sorted[Len(sorted)].earliest <= x.earliest THEN Append(sorted, x)
    ELSE Append(InsertSorted(SubSeq(sorted, 1, Len(sorted) - 1), x), sorted[Len(sorted)])

RECURSIVE StableSort(_, _)
StableSort(xs, acc) ==
    IF Len(xs) = 0 THEN acc ELSE StableSort(Tail(xs), InsertSorted(acc, Head(xs)))

OrderedSpeakers(texts, ranges) == StableSort(OrderedFrom(texts, ranges), <<>>)

\* Lines 402-406: one part per listed speaker whose text is not blank
RECURSIVE PartsFrom(_, _, _)
PartsFrom(ordered, texts, names) ==
    IF Len(ordered) = 0 THEN <<>>
    ELSE (IF ~BlankText(DictGet(texts, Head(ordered).speaker, <<>>))
          THEN <<[speaker |-> Head(ordered).speaker,
                  name |-> DictGet(names, Head(ordered).speaker, Head(ordered).speaker),
                  words |-> DictGet(texts, Head(ordered).speaker, <<>>)]>>
          ELSE <<>>)
         \o PartsFrom(Tail(ordered), texts, names)

TranscriptParts(texts, ranges, names) ==
    PartsFrom(OrderedSpeakers(texts, ranges), texts, names)

\* Lines 406-408: the parts are f"\n{speaker_name}: {speaker_text}";
\* ''.join(transcript_parts).strip() takes the first newline and the blanks
\* that trailing empty words leave at the end
RECURSIVE JoinBlocks(_)
JoinBlocks(parts) ==
    IF Len(parts) = 0 THEN ""
    ELSE IF Len(parts) = 1
         THEN parts[1].name \o ": " \o Join(DropTrailingEmpty(parts[1].words))
    ELSE parts[1].name \o ": " \o Join(parts[1].words) \o "\n" \o JoinBlocks(Tail(parts))

FinalTranscript(parts) == JoinBlocks(parts)

\* Mutant of AllWords: only the words that carry their times are kept
AllWords_TimedOnly(items) ==
    LET kept == SelectSeq(items, LAMBDA item : IsWord(item) /\ HasTiming(item))
    IN  [i \in 1..Len(kept) |-> kept[i].content]

\* Lines 293-295 and 421-423: the contents of all pronunciation items
RECURSIVE AllWords(_)
AllWords(items) ==
    IF Len(items) = 0 THEN <<>>
    ELSE (IF IsWord(Head(items)) THEN <<Head(items).content>> ELSE <<>>)
         \o AllWords(Tail(items))

\* Mutant of SingleBlock: the generic name is used whatever the map holds
SingleBlock_GenericName(items, names) == "Speaker" \o ": " \o Join(AllWords(items))

\* Lines 297-299 and 426-428: everything under the name of the first key
SingleBlock(items, names) ==
    DictGet(names, FirstKey(names, "spk_0"), "Speaker") \o ": " \o Join(AllWords(items))

\* ---------------------------------------------------------------- state
VARIABLES
    data,               \* the payload handed to process_transcript
    names_in,           \* the speaker_names argument: [given, map]
    pc,                 \* "call", "names", "ask", "process", "returned", "exited"
    speaker_segments,   \* local speaker_segments
    num_speakers,       \* local num_speakers
    speaker_names,      \* local speaker_names once it is a dictionary
    to_name,            \* labels that are still to be named by the user
    speaker_time_ranges,
    matched,            \* per item: the matched speaker, "" for none
    speaker_texts,
    transcript_parts,
    path,               \* which return statement was taken, or the exception raised
    result,             \* the returned string
    history,            \* the results of the earlier calls on the same arguments
    run,                \* the frame of run_converter, NotRunning outside it
    cleaner,            \* the VTT transcript cleaner
    transcribe,         \* run_transcription_menu and start_transcription_job
    menu,               \* the main menu loop of main.py
    jobname             \* process_transcript of the job-name converter

vars == <<data, names_in, pc, speaker_segments, num_speakers, speaker_names, to_name,
          speaker_time_ranges, matched, speaker_texts, transcript_parts, path, result,
          history, run, cleaner, transcribe, menu, jobname>>

\* the frames of the other tools
Tools == <<cleaner, transcribe, menu, jobname>>

\* ----------------------------------------------------------- the inputs
Words == <<"Hello", "world", "Hi", "there", "again">>

WordItem(s, e, l) ==
    [type |-> "pronunciation", alternatives |-> TRUE, content |-> "",
     start_time |-> s, end_time |-> e, speaker_label |-> l]

Punctuation ==
    [type |-> "punctuation", alternatives |-> TRUE, content |-> ".",
     start_time |-> NoTime, end_time |-> NoTime, speaker_label |-> NoLabel]

Segment(l, s, e) == [speaker_label |-> l, start_time |-> s, end_time |-> e]

\* the i-th pronunciation item of a payload reads Words[i]
WithContents(shapes) ==
    [i \in 1..Len(shapes) |->
        IF shapes[i].type = "pronunciation"
        THEN [shapes[i] EXCEPT !.content = Words[i]]
        ELSE shapes[i]]

Intervals(max) == {p \in (0..max) \X (0..max) : p[1] <= p[2]}
Untimed == <<NoTime, NoTime>>

\* the segment list is in order of start time, as the transcription engine
\* writes it; segments of different speakers may overlap
Chronological(segs) ==
    \A j \in 1..(Len(segs) - 1) : segs[j].start_time <= segs[j + 1].start_time

SegmentLists(max_segs, max_time) ==
    {segs \in SeqsUpTo({Segment(l, p[1], p[2]) :
                            l \in {"spk_0", "spk_1"}, p \in Intervals(max_time)},
                       max_segs) : Chronological(segs)}

\* Items and segments in slots: the i-th of them spans (off+i-1, off+i),
\* in units of half a second; an item may also come without its times
Slot(off, i) == <<off + i - 1, off + i>>

ItemKinds ==
    ({"timed", "untimed"} \X {NoLabel, "spk_0", "spk_1"}) \cup {<<"punctuation", NoLabel>>}

SlotItem(off, i, kind) ==
    IF kind[1] = "punctuation" THEN Punctuation
    ELSE IF kind[1] = "timed" THEN WordItem(Slot(off, i)[1], Slot(off, i)[2], kind[2])
    ELSE WordItem(NoTime, NoTime, kind[2])

SlotItems(off, kinds) == [i \in 1..Len(kinds) |-> SlotItem(off, i, kinds[i])]

SlotSegments(off, labels) ==
    [j \in 1..Len(labels) |-> Segment(labels[j], Slot(off, j)[1], Slot(off, j)[2])]

NoResults ==
    [has_results |-> FALSE, sl |-> "absent", count |-> 0, segments |-> <<>>, items |-> <<>>]

Payload(sl, count, segs, shapes) ==
    [has_results |-> TRUE, sl |-> sl, count |-> count, segments |-> segs,
     items |-> WithContents(shapes)]

AliceBob == <<[key |-> "spk_0", val |-> "Alice"], [key |-> "spk_1", val |-> "Bob"]>>
SamSam == <<[key |-> "spk_0", val |-> "Sam"], [key |-> "spk_1", val |-> "Sam"]>>
OnlyBob == <<[key |-> "spk_1", val |-> "Bob"]>>

Given(map) == [given |-> TRUE, map |-> map]
NotGiven == [given |-> FALSE, map |-> <<>>]

\* what the user may type at a naming prompt; Cancel is ctrl+c (ask() = None)
Cancel == <<"^C">>
Answers == {<<>>, <<" ">>, <<"A", "n", "n">>, <<" ", "B", "o", " ">>}

\* ---------------------------------------------------------------- steps
\* Mutant of InvalidData: the guard of line 182 is gone
InvalidData_NeverInvalid(d) == FALSE

\* Line 182: not data or 'results' not in data
InvalidData(d) == ~d.has_results

\* process_transcript is called directly, not from run_converter
NotRunning == [pc |-> "none"]

Start(d, n) ==
    /\ history = <<>>
    /\ run = NotRunning
    /\ cleaner = NotRunning
    /\ transcribe = NotRunning
    /\ menu = NotRunning
    /\ jobname = NotRunning
    /\ data = d
    /\ names_in = n
    /\ pc = "call"
    /\ speaker_segments = <<>>
    /\ num_speakers = 0
    /\ speaker_names = <<>>
    /\ to_name = <<>>
    /\ speaker_time_ranges = <<>>
    /\ matched = <<>>
    /\ speaker_texts = <<>>
    /\ transcript_parts = <<>>
    /\ path = ""
    /\ result = ""

Return(p, r) ==
    /\ pc' = "returned"
    /\ path' = p
    /\ result' = r

\* an exception that no handler of process_transcript catches
Raise(e) ==
    /\ pc' = "raised"
    /\ path' = e
    /\ result' = result

\* Lines 182-249
DetermineSpeakers ==
    /\ pc = "call"
    /\ IF InvalidData(data)
       THEN /\ Return("invalid", "")
            /\ UNCHANGED <<speaker_segments, num_speakers>>
       ELSE IF LookupRaises(data)
       THEN /\ Raise("AttributeError")
            /\ UNCHANGED <<speaker_segments, num_speakers>>
       ELSE IF Normalize(data).returns
       THEN /\ Return("no_speakers", "")
            /\ UNCHANGED <<speaker_segments, num_speakers>>
       ELSE /\ speaker_segments' = Normalize(data).segments
            /\ num_speakers' = Normalize(data).num
            /\ pc' = "names"
            /\ UNCHANGED <<path, result>>
    /\ UNCHANGED <<data, names_in, speaker_names, to_name, speaker_time_ranges,
                   matched, speaker_texts, transcript_parts, history, run, Tools>>

\* Lines 252-263 and 279-282
GetSpeakerNames ==
    /\ pc = "names"
    /\ IF num_speakers = CountAsText
       THEN \* line 252: '>' between a text and a number raises TypeError
            /\ Raise("TypeError")
            /\ UNCHANGED <<speaker_names, to_name>>
       ELSE IF ~names_in.given /\ (IF num_speakers > 1 THEN HasNull(speaker_segments)
                                                        ELSE NullBeforeLabel(speaker_segments))
       THEN /\ Raise("AttributeError")
            /\ UNCHANGED <<speaker_names, to_name>>
       ELSE IF num_speakers > 1 /\ ~names_in.given
       THEN /\ speaker_names' = <<>>
            /\ to_name' = PresentSpeakerLabels(speaker_segments, data.items)
            /\ pc' = IF Len(to_name') > 0 THEN "ask" ELSE "process"
            /\ UNCHANGED <<path, result>>
       ELSE IF ~names_in.given
       THEN /\ speaker_names' = DefaultNames(speaker_segments)
            /\ pc' = "process"
            /\ UNCHANGED <<to_name, path, result>>
       ELSE /\ speaker_names' = names_in.map
            /\ pc' = "process"
            /\ UNCHANGED <<to_name, path, result>>
    /\ UNCHANGED <<data, names_in, speaker_segments, num_speakers, speaker_time_ranges,
                   matched, speaker_texts, transcript_parts, history, run, Tools>>

\* Lines 266-277: one answer to the prompt for the first label still unnamed
AskName ==
    /\ pc = "ask"
    /\ \E answer \in Answers \cup {Cancel} :
          IF answer = Cancel
          THEN /\ pc' = "exited"
               /\ UNCHANGED <<speaker_names, to_name>>
          ELSE IF Len(Strip(answer)) > 0
          THEN /\ speaker_names' = DictSet(speaker_names, Head(to_name), StrOf(Strip(answer)))
               /\ to_name' = Tail(to_name)
               /\ pc' = IF Len(to_name') > 0 THEN "ask" ELSE "process"
          ELSE UNCHANGED <<pc, speaker_names, to_name>>
    /\ UNCHANGED <<data, names_in, speaker_segments, num_speakers, speaker_time_ranges,
                   matched, speaker_texts, transcript_parts, path, result, history, run, Tools>>

\* Mutant of NamesAfterAssembly: speaker_names.setdefault(speaker, speaker)
\* in place of speaker_names.get(speaker, speaker)
RECURSIVE NamesAfterAssembly_SetDefault(_, _)
NamesAfterAssembly_SetDefault(names, ordered) ==
    IF Len(ordered) = 0 THEN names
    ELSE NamesAfterAssembly_SetDefault(
             IF DictHas(names, Head(ordered).speaker) THEN names
             ELSE DictSet(names, Head(ordered).speaker, Head(ordered).speaker),
             Tail(ordered))

\* Line 403: speaker_names.get(speaker, speaker) reads the dictionary and
\* leaves it as it is, also for a speaker it does not hold
NamesAfterAssembly(names, ordered) == names

\* Line 171: a label map that was passed in is the caller's own dictionary;
\* what the call writes into speaker_names, the caller sees
CallerNames(n, local) == IF n.given THEN [n EXCEPT !.map = local] ELSE n

\* Lines 304-325: the dictionary speaker_time_ranges of this call; a
\* dictionary iterates in the order of insertion, in every call
TimeRangesOfCall == SpeakerTimeRanges(speaker_segments)

\* Lines 284-433
ProcessSegments ==
    /\ pc = "process"
    /\ IF Len(speaker_segments) = 0 /\ num_speakers = 1 /\ Len(data.items) > 0
       THEN /\ IF Len(AllWords(data.items)) > 0
               THEN Return("single", SingleBlock(data.items, speaker_names))
               ELSE Return("single_empty", "")
            /\ UNCHANGED <<speaker_time_ranges, matched, speaker_texts, transcript_parts,
                           speaker_names>>
       ELSE IF HasNull(speaker_segments)
       THEN \* line 306: segment.get on a null segment
            /\ Raise("AttributeError")
            /\ UNCHANGED <<speaker_time_ranges, matched, speaker_texts, transcript_parts,
                           speaker_names>>
       ELSE /\ speaker_time_ranges' = TimeRangesOfCall
            /\ matched' = Matched(data.items, speaker_time_ranges')
            /\ speaker_texts' = SpeakerTexts(data.items, speaker_time_ranges')
            /\ transcript_parts' =
                   TranscriptParts(speaker_texts', speaker_time_ranges', speaker_names)
            /\ speaker_names' =
                   NamesAfterAssembly(speaker_names,
                       OrderedSpeakers(speaker_texts', speaker_time_ranges'))
            /\ IF Len(transcript_parts') > 0
               THEN Return("assembled", FinalTranscript(transcript_parts'))
               ELSE IF Len(data.items) > 0
               THEN IF Len(AllWords(data.items)) > 0
                    THEN Return("fallback", SingleBlock(data.items, speaker_names))
                    ELSE Return("fallback_empty", "")
               ELSE Return("no_items", "")
    /\ names_in' = CallerNames(names_in, speaker_names')
    /\ UNCHANGED <<data, speaker_segments, num_speakers, to_name, history, run, Tools>>

Next == DetermineSpeakers \/ GetSpeakerNames \/ AskName \/ ProcessSegments

\* The caller calls process_transcript(d, speaker_names) once more, with the
\* label map of the call that has ended.  The locals of lines 187-188, 285,
\* 304 and 328 are new in every call; the outcome of the call that has ended
\* is kept in history.
CallAgainWith(d) ==
    /\ pc \in {"returned", "raised"}
    /\ history = <<>>
    /\ history' = <<[data |-> data, names |-> names_in, pc |-> pc, path |-> path,
                     matched |-> matched, result |-> result]>>
    /\ data' = d
    /\ pc' = "call"
    /\ speaker_segments' = <<>>
    /\ num_speakers' = 0
    /\ speaker_names' = <<>>
    /\ to_name' = <<>>
    /\ speaker_time_ranges' = <<>>
    /\ matched' = <<>>
    /\ speaker_texts' = <<>>
    /\ transcript_parts' = <<>>
    /\ path' = ""
    /\ result' = ""
    /\ UNCHANGED <<names_in, run, Tools>>

\* The payload whose speaker_labels is a list, its first element holding the
\* segments of the object format and a `speakers` count
AsList(d, speakers) == [d EXCEPT !.sl = "list", !.count = speakers]

\* after a payload in the object format without a count, the same items and
\* segments in the list format
CallReshaped ==
    /\ data.has_results /\ data.sl = "dict" /\ data.count = 0
    /\ \E speakers \in {0, 1, 2} : CallAgainWith(AsList(data, speakers))

NextShapes == Next \/ CallReshaped

\* ---------------------------------------------------------- run_converter
\* The locals of process_transcript, and its arguments
CallVars == <<data, names_in, pc, speaker_segments, num_speakers, speaker_names, to_name,
              speaker_time_ranges, matched, speaker_texts, transcript_parts, path, result>>

\* File and job names are sequences of characters.  Unsafe holds the
\* characters of these names that the class [^\w\-_\. ] of lines 479 and 485
\* matches; re.sub writes "_" for each of them.
Unsafe == {"/", ":", "(", ")"}
SafeName(cs) == [i \in 1..Len(cs) |-> IF cs[i] \in Unsafe THEN "_" ELSE cs[i]]

\* Lines 476-480 and 485-486: <directory>/<safe name>_processed.txt
OutputFile(dir, stem) == [dir |-> dir, name |-> StrOf(SafeName(stem)) \o "_processed.txt"]
NoFile == [dir |-> "", name |-> ""]

Stems == {<<"j", "o", "b">>, <<"m", "y", " ", "j", "o", "b", "/", "1">>}

\* The top-level keys of an AWS Transcribe JSON file, and of smaller objects
AwsKeys == <<"jobName", "accountId", "status", "results">>
KeyLists == {AwsKeys, <<"jobName", "results">>, <<"results">>}

\* The payloads a file or a job may hold
RunPayloads ==
    {NoResults}
    \cup {Payload("absent", 0, <<>>, SlotItems(1, kinds)) :
              kinds \in SeqsUpTo(ItemKinds, MaxItems)}
    \cup {Payload("empty_dict", 0, <<>>, SlotItems(1, kinds)) :
              kinds \in SeqsUpTo(ItemKinds, MaxItems)}
    \cup {Payload("dict", 0, SlotSegments(1, labels), SlotItems(1, kinds)) :
              labels \in SeqsUpTo({"spk_0", "spk_1"}, MaxTurns),
              kinds \in SeqsUpTo(ItemKinds, MaxItems)}

\* a JSON file on disk: where it is, whether json.load can read it, the keys
\* of its top-level object and the payload it holds
JsonFile(stem, readable, keys, payload) ==
    [dir |-> "/recordings", stem |-> stem, readable |-> readable, keys |-> keys,
     payload |-> payload]

\* The value of speaker_labels is the empty object {}.  The shape "dict" is
\* an object that holds the key segments, also with an empty list and
\* without a count.  process_transcript reads {} as it reads that object
\* (lines 201-203 take both keys with their defaults); line 505 does not.
EmptyLabels(d) == d.sl = "empty_dict"

\* Lines 504-506: the key is there and its value is truthy; {} is not
HasSpeakerLabels(d) == d.has_results /\ d.sl # "absent" /\ ~EmptyLabels(d)
HasItemsWithLabels(d) == d.has_results /\ \E i \in 1..Len(d.items) : HasLabel(d.items[i])

\* Lines 514-518
SimpleConcatenation(d) ==
    IF d.has_results /\ Len(AllWords(d.items)) > 0
    THEN "Speaker: " \o Join(AllWords(d.items))
    ELSE ""

\* Mutant of SkipsSave: only the answer No skips the save
SkipsSave_OnlyOnNo(answer) == answer = "no"

\* Line 540: not save_empty; ask() gives None when the prompt is cancelled
SkipsSave(answer) == answer \in {"no", "cancel"}

\* sys.exit(status); sys.exit("message") ends with status 1
Exit(status) == run' = [run EXCEPT !.pc = "exited", !.status = status]
\* an exception that leaves run_converter
RunRaises(e) == run' = [run EXCEPT !.pc = "raised", !.error = e, !.status = 1]

\* Lines 456-467
ChooseMethod ==
    /\ run.pc = "choose"
    /\ \E choice \in {"file", "bucket", "cancel"} :
          IF choice = "cancel" THEN Exit(1)
          ELSE run' = [run EXCEPT !.pc = "load", !.choice = choice]
    /\ UNCHANGED <<CallVars, history, Tools>>

\* Lines 35-66: get_transcript_from_file asks for a path until the file
\* exists, reads it and returns the parsed data, and nothing else
LoadFile ==
    /\ run.pc = "load" /\ run.choice = "file"
    /\ \E answer \in {"missing", "path", "cancel"} :
          IF answer = "missing" THEN UNCHANGED run
          ELSE IF answer = "cancel" THEN RunRaises("AttributeError")
          ELSE \E stem \in Stems, readable \in BOOLEAN, keys \in KeyLists,
                  payload \in {d \in RunPayloads : d.has_results} :
                  LET file == JsonFile(stem, readable, keys, payload) IN
                  IF ~readable THEN run' = [run EXCEPT !.pc = "exited", !.status = 1,
                                                       !.file = file]
                  ELSE run' = [run EXCEPT !.pc = "unpack", !.file = file]
    /\ UNCHANGED <<CallVars, history, Tools>>

\* Lines 474-480: data, json_file = <the parsed object> iterates the keys of
\* the object; with two keys the names are bound to the two keys, with any
\* other number the assignment raises ValueError
Unpack ==
    /\ run.pc = "unpack"
    /\ IF Len(run.file.keys) = 2
       THEN run' = [run EXCEPT !.pc = "convert",
                               !.data = [kind |-> "text", text |-> run.file.keys[1]],
                               !.json_file = run.file.keys[2],
                               !.output_file = [dir |-> "",
                                   name |-> run.file.keys[2] \o "_processed.txt"]]
       ELSE RunRaises("ValueError")
    /\ UNCHANGED <<CallVars, history, Tools>>

\* The states of a transcription job, as the job-status provider reports them
JobStatuses == {"QUEUED", "IN_PROGRESS", "COMPLETED", "FAILED"}
MaxPolls == 2

\* Lines 75-122: a job of the bucket is selected and its status read; or the
\* bucket has no job and the user names another bucket (line 106) or none
\* (line 108); or a prompt is left, ask() gives None and .strip() (line 78),
\* .lower() (line 104) or .split() (line 121) raises AttributeError
LoadBucket ==
    /\ run.pc = "load" /\ run.choice = "bucket"
    /\ \/ Exit(1)
       \/ UNCHANGED run
       \/ RunRaises("AttributeError")
       \/ \E job_name \in Stems, status \in JobStatuses :
             run' = [run EXCEPT !.pc = "job", !.job_name = job_name,
                                !.job_status = status]
    /\ UNCHANGED <<CallVars, history, Tools>>

\* Lines 125-137 and 152-164, then 482-486: the transcript is fetched and
\* returned with the job name.  The fetched JSON without results may be
\* empty ({} or null); line 483 names the output file only for data that is
\* truthy.
Fetched ==
    \E payload \in RunPayloads, empty \in BOOLEAN :
        /\ empty => ~payload.has_results
        /\ run' = [run EXCEPT
               !.pc = "convert",
               !.data = [kind |-> "payload", payload |-> payload, empty |-> empty],
               !.output_file = IF empty THEN NoFile
                               ELSE OutputFile("<cwd>", run.job_name)]

\* Mutant of PollsAgain: the loop waits for COMPLETED only
PollsAgain_UntilCompleted(status) == status # "COMPLETED"

\* Line 148: the condition of the wait loop
PollsAgain(status) == status \notin {"COMPLETED", "FAILED"}

\* Lines 124-147 and 168-169: the status read at the selection decides
JobSelected ==
    /\ run.pc = "job"
    /\ IF run.job_status = "COMPLETED" THEN Fetched
       ELSE IF run.job_status = "FAILED" THEN Exit(1)
       ELSE \E wait_choice \in {"y", "n", "cancel"} :
               IF wait_choice = "cancel" THEN RunRaises("AttributeError")
               ELSE IF wait_choice = "y" THEN run' = [run EXCEPT !.pc = "wait"]
               ELSE Exit(1)
    /\ UNCHANGED <<CallVars, history, Tools>>

\* Lines 148-150: one turn of the wait loop reads the status again
Poll ==
    /\ run.pc = "wait"
    /\ PollsAgain(run.job_status)
    /\ run.polls < MaxPolls
    /\ \E status \in JobStatuses :
          run' = [run EXCEPT !.job_status = status, !.polls = @ + 1]
    /\ UNCHANGED <<CallVars, history, Tools>>

\* Lines 151-167: after the loop
Waited ==
    /\ run.pc = "wait"
    /\ ~PollsAgain(run.job_status)
    /\ IF run.job_status = "COMPLETED" THEN Fetched
       ELSE Exit(1)
    /\ UNCHANGED <<CallVars, history, Tools>>

\* Lines 502-518: process_transcript(data) is called, without a label map,
\* when the data holds speaker labels; otherwise the words are concatenated.
\* data.get on a text raises AttributeError, which line 525 catches.
Convert ==
    /\ run.pc = "convert"
    /\ IF run.data.kind = "payload" /\ run.data.empty
       THEN \* lines 491-493: not data
            /\ Exit(1)
            /\ UNCHANGED CallVars
       ELSE IF run.data.kind = "text"
       THEN /\ Exit(1)
            /\ UNCHANGED CallVars
       ELSE IF HasSpeakerLabels(run.data.payload) \/ HasItemsWithLabels(run.data.payload)
       THEN /\ run' = [run EXCEPT !.pc = "calling"]
            /\ data' = run.data.payload
            /\ names_in' = NotGiven
            /\ pc' = "call"
            /\ UNCHANGED <<speaker_segments, num_speakers, speaker_names, to_name,
                           speaker_time_ranges, matched, speaker_texts, transcript_parts,
                           path, result>>
       ELSE /\ run' = [run EXCEPT !.pc = "check",
                                   !.transcript = SimpleConcatenation(run.data.payload)]
            /\ UNCHANGED CallVars
    /\ UNCHANGED <<history, Tools>>

\* Lines 509 and 520-530: the call returns the transcript; an exception is
\* caught at line 525 and ends the program with status 1; sys.exit of line
\* 272 is no Exception and ends the program with its message, status 1
Resume ==
    /\ run.pc = "calling"
    /\ pc \in {"returned", "raised", "exited"}
    /\ IF pc = "returned"
       THEN run' = [run EXCEPT !.pc = "check", !.transcript = result]
       ELSE Exit(1)
    /\ UNCHANGED <<CallVars, history, Tools>>

\* Lines 532-542
CheckEmpty ==
    /\ run.pc = "check"
    /\ IF run.transcript = ""
       THEN \E answer \in {"yes", "no", "cancel"} :
               IF SkipsSave(answer)
               THEN run' = [run EXCEPT !.pc = "exited", !.status = 0, !.warned = TRUE,
                                       !.answer = answer]
               ELSE run' = [run EXCEPT !.pc = "save", !.warned = TRUE, !.answer = answer]
       ELSE run' = [run EXCEPT !.pc = "save"]
    /\ UNCHANGED <<CallVars, history, Tools>>

\* Lines 544-561: the transcript is written to the output file, or the write
\* fails and the program ends with status 1
Save ==
    /\ run.pc = "save"
    /\ \/ run' = [run EXCEPT !.pc = "done", !.status = 0,
                              !.files = {[file |-> run.output_file,
                                          text |-> run.transcript]}]
       \/ Exit(1)
    /\ UNCHANGED <<CallVars, history, Tools>>

NextRun ==
    \/ ChooseMethod \/ LoadFile \/ Unpack \/ LoadBucket \/ JobSelected \/ Poll \/ Waited
    \/ Convert
    \/ DetermineSpeakers \/ GetSpeakerNames \/ AskName \/ ProcessSegments
    \/ Resume \/ CheckEmpty \/ Save

\* run_converter starts; process_transcript has not been called
ConverterStarts ==
    [pc |-> "choose", choice |-> "", file |-> JsonFile(<<>>, FALSE, <<>>, NoResults),
     data |-> [kind |-> "none"], json_file |-> "", output_file |-> NoFile,
     transcript |-> "", warned |-> FALSE, answer |-> "", error |-> "",
     status |-> -1, files |-> {}, job_name |-> <<>>, job_status |-> "", polls |-> 0]

InitRun ==
    /\ run = ConverterStarts
    /\ cleaner = NotRunning
    /\ transcribe = NotRunning
    /\ menu = NotRunning
    /\ jobname = NotRunning
    /\ history = <<>>
    /\ data = NoResults
    /\ names_in = NotGiven
    /\ pc = "idle"
    /\ speaker_segments = <<>>
    /\ num_speakers = 0
    /\ speaker_names = <<>>
    /\ to_name = <<>>
    /\ speaker_time_ranges = <<>>
    /\ matched = <<>>
    /\ speaker_texts = <<>>
    /\ transcript_parts = <<>>
    /\ path = ""
    /\ result = ""

SpecRun == InitRun /\ [][NextRun]_vars

\* -------------------------------------------------------- specifications
\* Spec: (a) no results; (b) slot items against slot segments under several
\* label maps; (c) no segment list at all or an empty one, with or without
\* a speaker count, and items that may carry their own label
InitAssembly ==
    \E off \in {0, 1}, kinds \in SeqsUpTo(ItemKinds, MaxItems),
       labels \in SeqsUpTo({"spk_0", "spk_1"}, MaxTurns),
       n \in {Given(AliceBob), Given(SamSam), Given(OnlyBob), Given(<<>>), NotGiven} :
        Start(Payload("dict", 0, SlotSegments(off, labels), SlotItems(off, kinds)), n)

InitLabelled ==
    \E off \in {0, 1}, kinds \in SeqsUpTo(ItemKinds, MaxLabelled),
       shape \in {<<"absent", 0>>} \cup ({"dict", "list"} \X {0, 1, 2}),
       n \in {Given(AliceBob), NotGiven} :
        Start(Payload(shape[1], shape[2], <<>>, SlotItems(off, kinds)), n)

Init ==
    \/ Start(NoResults, Given(AliceBob))
    \/ Start(NoResults, NotGiven)
    \/ InitAssembly
    \/ InitLabelled

Spec == Init /\ [][Next]_vars

\* SpecMatch: one unlabelled word against every chronological segment list
InitMatch ==
    \E segs \in SegmentLists(MaxSegs, MaxTime),
       p \in Intervals(MaxTime) \cup {Untimed},
       n \in {Given(AliceBob), NotGiven} :
        /\ n = NotGiven => p = Untimed
        /\ Start(Payload("dict", 0, segs, <<WordItem(p[1], p[2], NoLabel)>>), n)

SpecMatch == InitMatch /\ [][Next]_vars

\* SpecNearest: one unlabelled word against segments over a span of time long
\* enough for the segments that miss the word to lie at different distances
\* from its midpoint, before it and after it
InitNearest ==
    \E segs \in SegmentLists(NearSegs, NearTime),
       p \in Intervals(NearTime) \cup {Untimed},
       n \in {Given(AliceBob), NotGiven} :
        /\ n = NotGiven => p = Untimed
        /\ Start(Payload("dict", 0, segs, <<WordItem(p[1], p[2], NoLabel)>>), n)

SpecNearest == InitNearest /\ [][Next]_vars

\* SpecCover: one word, with or without its own label, against segments
\* wide enough to hold it strictly inside
InitCover ==
    \E segs \in SegmentLists(CoverSegs, CoverTime),
       p \in Intervals(CoverTime) \cup {Untimed},
       l \in {NoLabel, "spk_1"},
       n \in {Given(AliceBob), NotGiven} :
        /\ n = NotGiven => (p = Untimed /\ l = NoLabel)
        /\ Start(Payload("dict", 0, segs, <<WordItem(p[1], p[2], l)>>), n)

SpecCover == InitCover /\ [][Next]_vars

\* SpecShapes: the object and the list format of speaker_labels, with and
\* without a speaker count, against slot segments and slot items
InitShapes ==
    \E kinds \in SeqsUpTo(ItemKinds, MaxItems),
       labels \in SeqsUpTo({"spk_0", "spk_1"}, MaxTurns),
       sl \in {"dict", "list"}, count \in {0, 1, 2},
       n \in {Given(AliceBob), NotGiven} :
        Start(Payload(sl, count, SlotSegments(1, labels), SlotItems(1, kinds)), n)

SpecShapes == InitShapes /\ [][NextShapes]_vars

\* SpecMalformed: diarization data that is present but malformed.  The
\* speaker_labels value is a text, a list whose first element is a text, or
\* an object or list holding a speaker count that may be a text and segments
\* that may be null, empty objects or objects without their times.
SegmentKinds == {"spk_0", "spk_1", "null", "empty", "untimed"}

MalformedSegment(off, j, kind) ==
    IF kind = "null" THEN Null
    ELSE IF kind = "empty" THEN Segment(NoLabel, NoTime, NoTime)
    ELSE IF kind = "untimed" THEN Segment("spk_0", NoTime, NoTime)
    ELSE Segment(kind, Slot(off, j)[1], Slot(off, j)[2])

MalformedSegments(off, kinds) ==
    [j \in 1..Len(kinds) |-> MalformedSegment(off, j, kinds[j])]

InitMalformed ==
    \E kinds \in SeqsUpTo(ItemKinds, MaxItems),
       n \in {Given(AliceBob), NotGiven} :
        \/ \E sl \in {"text", "list_of_text"} :
               Start(Payload(sl, 0, <<>>, SlotItems(1, kinds)), n)
        \/ \E sl \in {"dict", "list"}, count \in {0, 2, CountAsText},
              segs \in SeqsUpTo(SegmentKinds, MaxTurns) :
               Start(Payload(sl, count, MalformedSegments(1, segs), SlotItems(1, kinds)), n)

SpecMalformed == InitMalformed /\ [][Next]_vars

\* ================================================================ claims
\* The matcher of lines 328-386 has run in this call
MatcherRan ==
    pc = "returned" /\ path \in {"assembled", "fallback", "fallback_empty", "no_items"}

\* The blocks of the returned transcript: those of block assembly, or the
\* single block of lines 299 and 428
OutputBlocks ==
    IF path = "assembled"
    THEN [p \in 1..Len(transcript_parts) |->
             [name |-> transcript_parts[p].name, words |-> transcript_parts[p].words]]
    ELSE IF path \in {"single", "fallback"}
    THEN <<[name |-> IF Len(speaker_names) = 0 THEN "Speaker" ELSE speaker_names[1].val,
            words |-> AllWords(data.items)]>>
    ELSE <<>>

\* the contents of the pronunciation items that carry label l, in item order
RECURSIVE WordsLabelled(_, _)
WordsLabelled(items, l) ==
    IF Len(items) = 0 THEN <<>>
    ELSE (IF IsWord(Head(items)) /\ Head(items).speaker_label = l
          THEN <<Head(items).content>> ELSE <<>>)
         \o WordsLabelled(Tail(items), l)

\* No time of the payload is zero: for such payloads the truthiness tests
\* of lines 313 and 336 say exactly whether the times are present
ZeroFree ==
    /\ \A i \in 1..Len(data.items) :
           data.items[i].start_time # 0 /\ data.items[i].end_time # 0
    /\ \A j \in 1..Len(data.segments) :
           data.segments[j].start_time # 0 /\ data.segments[j].end_time # 0


\* ------------------------------------------------ VTT transcript cleaner
\* Texts and paths are sequences of characters; "\n" ends a line.
NL == "\n"

StartsWith(cs, p) == Len(cs) >= Len(p) /\ SubSeq(cs, 1, Len(p)) = p
Drop(cs, n) == SubSeq(cs, n + 1, Len(cs))

\* The first position of cs at which a match begins, 0 for none;
\* MatchLength(s) is the length of the match at the head of s, 0 for none
FirstMatch(cs, MatchLength(_)) ==
    LET at == {i \in 1..Len(cs) : MatchLength(Drop(cs, i - 1)) > 0}
    IN  IF at = {} THEN 0 ELSE CHOOSE i \in at : \A j \in at : i <= j

\* str.replace(old, new): every occurrence, from the left, without overlap
RECURSIVE Replace(_, _, _)
Replace(cs, old, new) ==
    LET i == FirstMatch(cs, LAMBDA s : IF StartsWith(s, old) THEN Len(old) ELSE 0)
    IN  IF i = 0 THEN cs
        ELSE SubSeq(cs, 1, i - 1) \o new \o Replace(Drop(cs, i - 1 + Len(old)), old, new)

\* content.split('\n')
RECURSIVE SplitLines(_)
SplitLines(cs) ==
    LET i == FirstMatch(cs, LAMBDA s : IF Head(s) = NL THEN 1 ELSE 0)
    IN  IF i = 0 THEN <<cs>>
        ELSE <<SubSeq(cs, 1, i - 1)>> \o SplitLines(Drop(cs, i))

\* '\n'.join(lines)
RECURSIVE JoinLines(_)
JoinLines(lines) ==
    IF Len(lines) = 0 THEN <<>>
    ELSE IF Len(lines) = 1 THEN lines[1]
    ELSE lines[1] \o <<NL>> \o JoinLines(Tail(lines))

\* ':' in line, and line.split(':', 1)
HasColon(line) == \E i \in 1..Len(line) : line[i] = ":"
ColonAt(line) ==
    CHOOSE i \in 1..Len(line) : line[i] = ":" /\ \A j \in 1..(i - 1) : line[j] # ":"
BeforeColon(line) == SubSeq(line, 1, ColonAt(line) - 1)
AfterColon(line) == SubSeq(line, ColonAt(line) + 1, Len(line))

\* Line 94: the line names a speaker
IsSpeakerLine(line) == HasColon(line) /\ Strip(BeforeColon(line)) # <<>>

\* Lines 86-104: the lines that do not name a speaker are joined to the
\* speaker line before them; an empty line closes the open line.
\* current = <<>> is current_line = None.
RECURSIVE FirstPass(_, _, _)
FirstPass(lines, current, acc) ==
    LET closed == IF current # <<>> THEN Append(acc, current) ELSE acc IN
    IF Len(lines) = 0 THEN closed
    ELSE LET line == Strip(Head(lines)) IN
         IF line = <<>> THEN FirstPass(Tail(lines), <<>>, closed)
         ELSE IF IsSpeakerLine(line) THEN FirstPass(Tail(lines), line, closed)
         ELSE IF current # <<>>
              THEN FirstPass(Tail(lines), current \o <<" ">> \o line, acc)
         ELSE FirstPass(Tail(lines), <<>>, Append(acc, line))

\* Lines 112-113, 126-127 and 131-132: the open block is written only when
\* its text is not empty.  cur = <<>> is current_speaker = None.
Flush(cur, acc) ==
    IF cur # <<>> /\ cur[1].text # <<>>
    THEN Append(acc, cur[1].speaker \o <<":", " ">> \o cur[1].text)
    ELSE acc

\* Lines 110-132: consecutive lines of one speaker become one line
RECURSIVE SecondPass(_, _, _)
SecondPass(lines, cur, acc) ==
    IF Len(lines) = 0 THEN Flush(cur, acc)
    ELSE LET line == Head(lines) IN
         IF ~HasColon(line)
         THEN SecondPass(Tail(lines), <<>>, Append(Flush(cur, acc), line))
         ELSE LET speaker == Strip(BeforeColon(line))
                  text == Strip(AfterColon(line))
              IN  IF cur # <<>> /\ cur[1].speaker = speaker
                  THEN SecondPass(Tail(lines),
                           <<[speaker |-> speaker,
                              text |-> cur[1].text \o <<" ">> \o text]>>, acc)
                  ELSE SecondPass(Tail(lines),
                           <<[speaker |-> speaker, text |-> text]>>, Flush(cur, acc))

\* Lines 76-134
combine_speaker_lines(content) ==
    JoinLines(SecondPass(FirstPass(SplitLines(content), <<>>, <<>>), <<>>, <<>>))


\* process_transcript of the converter is not called
NoCall ==
    /\ history = <<>>
    /\ data = NoResults
    /\ names_in = NotGiven
    /\ pc = "idle"
    /\ speaker_segments = <<>>
    /\ num_speakers = 0
    /\ speaker_names = <<>>
    /\ to_name = <<>>
    /\ speaker_time_ranges = <<>>
    /\ matched = <<>>
    /\ speaker_texts = <<>>
    /\ transcript_parts = <<>>
    /\ path = ""
    /\ result = ""

\* The lines of the texts handed to combine_speaker_lines: speaker lines
\* with and without text, a line without a speaker, a line that starts with
\* the colon, blanks around the name, and the empty line
TextLines ==
    {<<>>,
     <<"A", ":", " ", "x">>,
     <<"A", ":", " ", "y">>,
     <<"B", ":">>,
     <<"x">>,
     <<":", " ", "x">>,
     <<" ", "A", " ", ":", "y">>}
MaxLines == 3
\* combine_speaker_lines is applied to a text, then to its own output
MaxApplied == 2

\* cleaner.results holds the outputs: of the text, of that output, ...
Combine ==
    /\ cleaner.pc = "combine"
    /\ Len(cleaner.results) < MaxApplied
    /\ cleaner' = [cleaner EXCEPT !.results =
           Append(@, combine_speaker_lines(IF Len(@) = 0 THEN cleaner.content
                                           ELSE @[Len(@)]))]
    /\ UNCHANGED <<CallVars, history, run, transcribe, menu, jobname>>

NextCombine == Combine

InitCombine ==
    /\ \E lines \in SeqsUpTo(TextLines, MaxLines) :
          cleaner = [pc |-> "combine", content |-> JoinLines(lines), results |-> <<>>]
    /\ NoCall
    /\ run = NotRunning
    /\ transcribe = NotRunning
    /\ menu = NotRunning
    /\ jobname = NotRunning

SpecCombine == InitCombine /\ [][NextCombine]_vars


\* ---- clean_transcript
Digit == {"0", "1", "2", "3", "4", "5", "6", "7", "8", "9"}
HexDigit == Digit \cup {"a", "b", "c", "d", "e", "f"}
\* \s in the texts of the model
Space == {" ", NL}

\* A pattern of fixed length is a sequence of character classes
Lit(cs) == [i \in 1..Len(cs) |-> {cs[i]}]
Times(class, n) == [i \in 1..n |-> class]
MatchesAt(cs, pattern) ==
    Len(cs) >= Len(pattern) /\ \A i \in 1..Len(pattern) : cs[i] \in pattern[i]

\* \d{2}:\d{2}:\d{2}\.\d{3}
Stamp ==
    Times(Digit, 2) \o Lit(<<":">>) \o Times(Digit, 2) \o Lit(<<":">>) \o Times(Digit, 2)
    \o Lit(<<".">>) \o Times(Digit, 3)
\* Line 153
TimestampLine == Stamp \o Lit(<<" ", "-", "-", ">", " ">>) \o Stamp \o Lit(<<NL>>)

\* re.sub(pattern, '', content): the matches are taken from the left
TimestampLength(cs) == IF MatchesAt(cs, TimestampLine) THEN Len(TimestampLine) ELSE 0
RECURSIVE RemoveTimestamps(_)
RemoveTimestamps(cs) ==
    LET i == FirstMatch(cs, TimestampLength)
    IN  IF i = 0 THEN cs
        ELSE SubSeq(cs, 1, i - 1) \o RemoveTimestamps(Drop(cs, i - 1 + Len(TimestampLine)))

\* the length of the longest prefix of cs made of characters of the class
RECURSIVE RunOf(_, _)
RunOf(cs, class) ==
    IF Len(cs) > 0 /\ Head(cs) \in class THEN 1 + RunOf(Tail(cs), class) ELSE 0

\* Line 156: [\da-f]{8}-[\da-f]{4}-[\da-f]{4}-[\da-f]{4}-[\da-f]{12}/
IdPrefix ==
    Times(HexDigit, 8) \o Lit(<<"-">>) \o Times(HexDigit, 4) \o Lit(<<"-">>)
    \o Times(HexDigit, 4) \o Lit(<<"-">>) \o Times(HexDigit, 4) \o Lit(<<"-">>)
    \o Times(HexDigit, 12) \o Lit(<<"/">>)
\* the length of the match of the whole pattern at the head of cs, 0 for
\* none: after the prefix, \d+-\d+\n
IdLineLength(cs) ==
    IF ~MatchesAt(cs, IdPrefix) THEN 0
    ELSE LET r1 == Drop(cs, Len(IdPrefix))
             n1 == RunOf(r1, Digit)
             r2 == Drop(r1, n1 + 1)
             n2 == RunOf(r2, Digit)
         IN  IF /\ n1 > 0 /\ Len(r1) > n1 /\ r1[n1 + 1] = "-"
                /\ n2 > 0 /\ Len(r2) > n2 /\ r2[n2 + 1] = NL
             THEN Len(IdPrefix) + n1 + 1 + n2 + 1
             ELSE 0

RECURSIVE RemoveIdLines(_)
RemoveIdLines(cs) ==
    LET i == FirstMatch(cs, IdLineLength)
    IN  IF i = 0 THEN cs
        ELSE SubSeq(cs, 1, i - 1)
             \o RemoveIdLines(Drop(cs, i - 1 + IdLineLength(Drop(cs, i - 1))))

\* Line 158: re.sub(r'<v\s+', '', content)
VoiceTagLength(cs) ==
    IF StartsWith(cs, <<"<", "v">>) /\ RunOf(Drop(cs, 2), Space) > 0
    THEN 2 + RunOf(Drop(cs, 2), Space)
    ELSE 0
RECURSIVE RemoveVoiceTags(_)
RemoveVoiceTags(cs) ==
    LET i == FirstMatch(cs, VoiceTagLength)
    IN  IF i = 0 THEN cs
        ELSE SubSeq(cs, 1, i - 1)
             \o RemoveVoiceTags(Drop(cs, i - 1 + VoiceTagLength(Drop(cs, i - 1))))

\* Line 165: re.sub(r'\n\s*\n', '\n', content).  After a newline the white
\* space up to the last newline of the run is taken with it.
LastNewline(cs, n) ==
    IF \E i \in 1..n : cs[i] = NL
    THEN CHOOSE i \in 1..n : cs[i] = NL /\ \A j \in (i + 1)..n : cs[j] # NL
    ELSE 0
BlankLinesLength(cs) ==
    IF Head(cs) = NL /\ LastNewline(Tail(cs), RunOf(Tail(cs), Space)) > 0
    THEN 1 + LastNewline(Tail(cs), RunOf(Tail(cs), Space))
    ELSE 0
RECURSIVE CollapseBlankLines(_)
CollapseBlankLines(cs) ==
    LET i == FirstMatch(cs, BlankLinesLength)
    IN  IF i = 0 THEN cs
        ELSE SubSeq(cs, 1, i - 1) \o <<NL>>
             \o CollapseBlankLines(Drop(cs, i - 1 + BlankLinesLength(Drop(cs, i - 1))))

\* os.path.basename
LastIndexOf(cs, c) ==
    IF \E i \in 1..Len(cs) : cs[i] = c
    THEN CHOOSE i \in 1..Len(cs) : cs[i] = c /\ \A j \in (i + 1)..Len(cs) : cs[j] # c
    ELSE 0
BaseName(p) == Drop(p, LastIndexOf(p, "/"))
\* os.path.splitext(name)[0]: the name up to its last dot, when a character
\* other than the dot stands before that dot
SplitExtRoot(name) ==
    LET dot == LastIndexOf(name, ".") IN
    IF dot > 0 /\ \E j \in 1..(dot - 1) : name[j] # "."
    THEN SubSeq(name, 1, dot - 1)
    ELSE name

\* Lines 151-165: the text written to the output file
CleanedContent(content, input_file) ==
    LET filename_base == SplitExtRoot(BaseName(input_file))
        c1 == Replace(content, <<"W", "E", "B", "V", "T", "T">>,
                      filename_base \o <<" ", "t", "r", "a", "n", "s", "c", "r", "i", "p", "t">>)
        c2 == RemoveTimestamps(c1)
        c3 == RemoveIdLines(c2)
        c4 == Replace(c3, <<"<", "/", "v", ">">>, <<>>)
        c5 == RemoveVoiceTags(c4)
        c6 == Replace(c5, <<">">>, <<":">>)
    IN  CollapseBlankLines(combine_speaker_lines(c6))

Suffix == <<"_", "c", "l", "e", "a", "n", "e", "d", ".", "t", "x", "t">>

\* Mutant of OutputPath: the suffix is not appended to a path without .vtt
OutputPath_NoFallback(input_file) == Replace(input_file, <<".", "v", "t", "t">>, Suffix)

\* Lines 167-169
OutputPath(input_file) ==
    IF Replace(input_file, <<".", "v", "t", "t">>, Suffix) = input_file
    THEN input_file \o Suffix
    ELSE Replace(input_file, <<".", "v", "t", "t">>, Suffix)

\* Lines 58-74 (sanitize_path): the quotes around the path, the backslashes
\* before a character and the blanks at the end are taken away
RECURSIVE StripQuotesLeft(_)
StripQuotesLeft(cs) ==
    IF Len(cs) > 0 /\ cs[1] \in {"'", "\""} THEN StripQuotesLeft(Tail(cs)) ELSE cs
RECURSIVE StripQuotesRight(_)
StripQuotesRight(cs) ==
    IF Len(cs) > 0 /\ cs[Len(cs)] \in {"'", "\""}
    THEN StripQuotesRight(SubSeq(cs, 1, Len(cs) - 1))
    ELSE cs
RECURSIVE Unescape(_)
Unescape(cs) ==
    IF Len(cs) = 0 THEN <<>>
    ELSE IF Head(cs) = "\\" /\ Len(cs) > 1 /\ cs[2] # NL
         THEN <<cs[2]>> \o Unescape(Drop(cs, 2))
    ELSE <<Head(cs)>> \o Unescape(Tail(cs))
SanitizedPath(input_path) == StripRight(Unescape(StripQuotesRight(StripQuotesLeft(input_path))))

\* The lines of the VTT files of the model
VttLines ==
    {<<"W", "E", "B", "V", "T", "T">>,
     <<"0", "a", "1", "b", "2", "c", "3", "d", "-", "0", "0", "0", "0", "-", "4", "0", "0", "0", "-", "8", "0", "0", "0", "-", "0", "0", "0", "0", "0", "0", "0", "0", "0", "0", "0", "f", "/", "1", "2", "-", "0">>,
     <<"0", "0", ":", "0", "0", ":", "0", "1", ".", "0", "0", "0", " ", "-", "-", ">", " ", "0", "0", ":", "0", "0", ":", "0", "2", ".", "5", "0", "0">>,
     <<"<", "v", " ", "A", ">", "x", "<", "/", "v", ">">>,
     <<"<", "v", " ", "B", ">", "y", "<", "/", "v", ">">>,
     <<"x">>}
MaxVttLines == 3
VttPaths ==
    {<<"t", ".", "v", "t", "t">>,
     <<"d", ".", "v", "t", "t", "/", "t", ".", "v", "t", "t">>,
     <<"t", ".", "t", "x", "t">>,
     <<"t">>,
     <<".", "v", "t", "t">>,
     <<"d", "/", "a", ".", "b", ".", "v", "t", "t">>}
\* What the user may type for the file at path p, and a path of no file
Typed(p) == {p, <<"'">> \o p \o <<"'", " ">>, <<"n", "o", "p", "e">>}
OldText == <<"o", "l", "d">>

\* Lines 195-202 and 58-74: the path is asked for; run_cleaner ends with the
\* message of line 206 when the prompt is left or the file cannot be opened
AskPath ==
    /\ cleaner.pc = "ask"
    /\ \/ cleaner' = [cleaner EXCEPT !.pc = "done", !.error = "FileNotFoundError"]
       \/ \E file_path \in UNION {Typed(cleaner.files[i].key) : i \in 1..Len(cleaner.files)} :
             IF DictHas(cleaner.files, SanitizedPath(file_path))
             THEN cleaner' = [cleaner EXCEPT !.pc = "clean",
                                             !.input_file = SanitizedPath(file_path)]
             ELSE cleaner' = [cleaner EXCEPT !.pc = "done", !.error = "FileNotFoundError"]
    /\ UNCHANGED <<CallVars, history, run, transcribe, menu, jobname>>

\* Lines 136-175: the file is read, cleaned and written to the output path;
\* open(output_file, 'w') fails when its directory does not exist
CleanTranscript ==
    /\ cleaner.pc = "clean"
    /\ LET content == DictGet(cleaner.files, cleaner.input_file, <<>>)
           output_file == OutputPath(cleaner.input_file)
       IN  \/ cleaner' = [cleaner EXCEPT
                  !.pc = "done", !.content = content, !.output_file = output_file,
                  !.files = DictSet(@, output_file,
                                    CleanedContent(content, cleaner.input_file))]
           \/ cleaner' = [cleaner EXCEPT !.pc = "done", !.content = content,
                                         !.error = "OSError"]
    /\ UNCHANGED <<CallVars, history, run, transcribe, menu, jobname>>

NextClean == AskPath \/ CleanTranscript

\* run_cleaner starts: the VTT file exists, and a file may already stand at
\* the output path
CleanerStarts(p, text, old) ==
    [pc |-> "ask", input_file |-> <<>>, content |-> <<>>, output_file |-> <<>>,
     error |-> "",
     files |-> <<[key |-> p, val |-> text]>>
               \o (IF old /\ OutputPath(p) # p
                   THEN <<[key |-> OutputPath(p), val |-> OldText]>> ELSE <<>>)]

InitClean ==
    /\ \E p \in VttPaths, lines \in SeqsUpTo(VttLines, MaxVttLines), old \in BOOLEAN :
          cleaner = CleanerStarts(p, JoinLines(lines) \o <<NL>>, old)
    /\ NoCall
    /\ run = NotRunning
    /\ transcribe = NotRunning
    /\ menu = NotRunning
    /\ jobname = NotRunning

SpecClean == InitClean /\ [][NextClean]_vars


\* ------------------------------------------------- transcribe_audio.py
LowerCase ==
    <<"a", "b", "c", "d", "e", "f", "g", "h", "i", "j", "k", "l", "m",
      "n", "o", "p", "q", "r", "s", "t", "u", "v", "w", "x", "y", "z">>
UpperCase ==
    <<"A", "B", "C", "D", "E", "F", "G", "H", "I", "J", "K", "L", "M",
      "N", "O", "P", "Q", "R", "S", "T", "U", "V", "W", "X", "Y", "Z">>
Range(f) == {f[i] : i \in DOMAIN f}
\* str.lower()
Lower(cs) ==
    [i \in 1..Len(cs) |->
        IF cs[i] \in Range(UpperCase)
        THEN LowerCase[CHOOSE k \in 1..Len(UpperCase) : UpperCase[k] = cs[i]]
        ELSE cs[i]]

\* Lines 40-45 (create_job_name): the file name up to its first dot, with
\* "-" for every character outside [a-zA-Z0-9_-]
FirstIndexOf(cs, c) ==
    IF \E i \in 1..Len(cs) : cs[i] = c
    THEN CHOOSE i \in 1..Len(cs) : cs[i] = c /\ \A j \in 1..(i - 1) : cs[j] # c
    ELSE Len(cs) + 1
JobNameChars == Range(LowerCase) \cup Range(UpperCase) \cup Digit \cup {"_", "-"}
DefaultJobName ==
    <<"t", "r", "a", "n", "s", "c", "r", "i", "p", "t", "i", "o", "n", "-", "j", "o", "b">>
create_job_name(s3_path) ==
    LET filename == BaseName(s3_path)
        base_name == SubSeq(filename, 1, FirstIndexOf(filename, ".") - 1)
        job_name == [i \in 1..Len(base_name) |->
                        IF base_name[i] \in JobNameChars THEN base_name[i] ELSE "-"]
    IN  IF job_name = <<>> THEN DefaultJobName ELSE job_name

\* Line 53: s3_path.split('.')[-1].lower()
MediaFormat(s3_path) == Lower(Drop(s3_path, LastIndexOf(s3_path, ".")))

\* Lines 55-65 and 70-80: the request sent to AWS Transcribe
Request(job_name, s3_path, speaker_count) ==
    [TranscriptionJobName |-> job_name,
     MediaFileUri |-> s3_path,
     MediaFormat |-> MediaFormat(s3_path),
     LanguageCode |-> "en-US",
     ShowSpeakerLabels |-> TRUE,
     MaxSpeakerLabels |-> speaker_count,
     ChannelIdentification |-> TRUE]

\* int(time.time()) at line 69, in decimal digits
Clock == {<<"1", "7", "0", "0">>, <<"1", "7", "0", "1">>}
\* what AWS Transcribe may answer to a start request
StartAnswers == {"ok", "ConflictException", "LimitExceededException"}

\* Mutant of Retries: every failure of the first request is retried
Retries_AnyFailure(answer) == answer # "ok"

\* Line 67: only the conflict of job names is retried
Retries(answer) == answer = "ConflictException"

\* int(speaker_input): blanks around, a sign, decimal digits with single
\* underscores between them; anything else raises ValueError
DigitChars == <<"0", "1", "2", "3", "4", "5", "6", "7", "8", "9">>
DigitValue(c) == (CHOOSE k \in 1..10 : DigitChars[k] = c) - 1
RECURSIVE Decimal(_)
Decimal(ds) ==
    IF Len(ds) = 0 THEN 0
    ELSE 10 * Decimal(SubSeq(ds, 1, Len(ds) - 1)) + DigitValue(ds[Len(ds)])
IntOf(cs) ==
    LET s == Strip(cs)
        signed == Len(s) > 0 /\ s[1] \in {"+", "-"}
        body == IF signed THEN Tail(s) ELSE s
        digits == SelectSeq(body, LAMBDA c : c # "_")
        wellformed ==
            /\ Len(body) > 0
            /\ \A i \in 1..Len(body) : body[i] \in Digit \cup {"_"}
            /\ body[1] # "_" /\ body[Len(body)] # "_"
            /\ \A i \in 1..(Len(body) - 1) : ~(body[i] = "_" /\ body[i + 1] = "_")
    IN  IF wellformed
        THEN [ok |-> TRUE,
              val |-> IF signed /\ s[1] = "-" THEN 0 - Decimal(digits) ELSE Decimal(digits)]
        ELSE [ok |-> FALSE, val |-> 0]

\* Mutant of SpeakerCount: one speaker is let through
SpeakerCount_FromOne(speaker_input) ==
    IF IntOf(speaker_input).ok
    THEN IF IntOf(speaker_input).val < 1 \/ IntOf(speaker_input).val > 30
         THEN 2 ELSE IntOf(speaker_input).val
    ELSE 2

\* Lines 190-197
SpeakerCount(speaker_input) ==
    IF IntOf(speaker_input).ok
    THEN IF IntOf(speaker_input).val < 2 \/ IntOf(speaker_input).val > 30
         THEN 2 ELSE IntOf(speaker_input).val
    ELSE 2

S3Paths ==
    {<<"s", "3", ":", "/", "/", "b", "/", "a", ".", "m", "p", "3">>,
     <<"s", "3", ":", "/", "/", "b", "/", "m", "y", " ", "t", "a", "l", "k", ".", "M", "P", "3">>,
     <<"s", "3", ":", "/", "/", "b", "/", ".", "w", "a", "v">>,
     <<"s", "3", ":", "/", "/", "b", "/", "x">>}
SpeakerInputs ==
    {<<"3">>,
     <<"3", "0">>,
     <<"3", "1">>,
     <<"1">>,
     <<"a", "b", "c">>,
     <<>>,
     <<" ", "5", " ">>,
     <<"2", ".", "5">>,
     <<"-", "4">>,
     <<"+", "7">>,
     <<"1", "_", "0">>}

\* run_transcription_menu ends: "returned", with the message it printed
MenuReturns(message) == transcribe' = [transcribe EXCEPT !.pc = "returned", !.message = message]

\* Lines 133-184: the credentials are checked and the audio file is named:
\* a local file that is uploaded to a bucket, or an S3 URI.  A prompt that is
\* left gives None, and None.strip() ends the menu at line 208.
ChooseAudio ==
    /\ transcribe.pc = "menu"
    /\ \/ MenuReturns("AWS credentials not found")
       \/ MenuReturns("File not found")
       \/ MenuReturns("Bucket validation failed")
       \/ MenuReturns("Upload failed")
       \/ MenuReturns("Invalid S3 URI")
       \/ MenuReturns("Unexpected error")
       \/ \E s3_path \in S3Paths :
             transcribe' = [transcribe EXCEPT !.pc = "speakers", !.s3_path = s3_path]
    /\ UNCHANGED <<CallVars, history, run, cleaner, menu, jobname>>

\* Lines 186-199: int(None) raises TypeError, which line 195 does not catch
AskSpeakers ==
    /\ transcribe.pc = "speakers"
    /\ \/ MenuReturns("Unexpected error")
       \/ \E speaker_input \in SpeakerInputs :
             transcribe' = [transcribe EXCEPT
                 !.pc = "start", !.speaker_input = speaker_input,
                 !.speaker_count = SpeakerCount(speaker_input)]
    /\ UNCHANGED <<CallVars, history, run, cleaner, menu, jobname>>

\* Lines 51-66 and 82-83: the first request of start_transcription_job
StartJob ==
    /\ transcribe.pc = "start"
    /\ \E answer \in StartAnswers :
          LET request == Request(create_job_name(transcribe.s3_path),
                                 transcribe.s3_path, transcribe.speaker_count)
          IN  transcribe' = [transcribe EXCEPT
                  !.requests = Append(@, request),
                  !.answers = Append(@, answer),
                  !.pc = IF answer = "ok" THEN "started"
                         ELSE IF Retries(answer) THEN "retry" ELSE "failed",
                  !.error = IF answer = "ok" \/ Retries(answer) THEN ""
                            ELSE "Failed to start transcription job: " \o answer]
    /\ UNCHANGED <<CallVars, history, run, cleaner, menu, jobname>>

\* Lines 67-81: the request is sent once more under a name with the time;
\* an exception of this request leaves start_transcription_job as it is
RetryJob ==
    /\ transcribe.pc = "retry"
    /\ \E answer \in StartAnswers, now \in Clock :
          LET request == Request(create_job_name(transcribe.s3_path) \o <<"-">> \o now,
                                 transcribe.s3_path, transcribe.speaker_count)
          IN  transcribe' = [transcribe EXCEPT
                  !.requests = Append(@, request),
                  !.answers = Append(@, answer),
                  !.pc = IF answer = "ok" THEN "started" ELSE "failed",
                  !.error = IF answer = "ok" THEN "" ELSE answer]
    /\ UNCHANGED <<CallVars, history, run, cleaner, menu, jobname>>

\* Lines 202-206: the job name or the error is printed and the menu ends
Report ==
    /\ transcribe.pc \in {"started", "failed"}
    /\ MenuReturns(IF transcribe.pc = "started" THEN "Transcription job started successfully"
                   ELSE transcribe.error)
    /\ UNCHANGED <<CallVars, history, run, cleaner, menu, jobname>>

NextTranscribe == ChooseAudio \/ AskSpeakers \/ StartJob \/ RetryJob \/ Report

TranscriptionMenuStarts ==
    [pc |-> "menu", s3_path |-> <<>>, speaker_input |-> <<>>, speaker_count |-> 0,
     requests |-> <<>>, answers |-> <<>>, error |-> "", message |-> ""]

InitTranscribe ==
    /\ transcribe = TranscriptionMenuStarts
    /\ NoCall
    /\ run = NotRunning
    /\ cleaner = NotRunning
    /\ menu = NotRunning
    /\ jobname = NotRunning

SpecTranscribe == InitTranscribe /\ [][NextTranscribe]_vars


\* ------------------------------ convert_aws_transcript_by_jobname.py
\* process_transcript of the job-name converter.  A segment of the payload
\* has its label and times and, as AWS writes it, a key 'items'; an item has
\* its content and, unless it is punctuation, its times.
JobSegment(l, s, e, has_items) ==
    [speaker_label |-> l, start_time |-> s, end_time |-> e, has_items |-> has_items]
JobItem(content, s, e) == [content |-> content, start_time |-> s, end_time |-> e]

\* Lines 118-122: int(speakers_count), or the number of the segments' labels
NumSpeakers(d) ==
    IF d.has_count THEN d.speakers_count
    ELSE Cardinality({d.segments[j].speaker_label : j \in 1..Len(d.segments)})

\* Lines 150-157: the contents of the items with both times that lie in the
\* segment's span
SegmentItems(segment, items) ==
    LET inside == SelectSeq(items, LAMBDA item :
                      /\ item.start_time # NoTime /\ item.end_time # NoTime
                      /\ item.start_time >= segment.start_time
                      /\ item.end_time <= segment.end_time)
    IN  [i \in 1..Len(inside) |-> inside[i].content]

\* Lines 160-161 and 169-170: "\n{speaker_name}: {' '.join(current_text)}"
JobBlock(speaker, names, words) ==
    [speaker |-> speaker, name |-> DictGet(names, speaker, speaker), words |-> words]

\* Line 172: ''.join(transcript_parts).strip(); the blank after the colon of
\* a last block without words is stripped too
RECURSIVE JobTranscript(_)
JobTranscript(parts) ==
    IF Len(parts) = 0 THEN ""
    ELSE IF Len(parts) = 1
         THEN IF parts[1].words = <<>> THEN parts[1].name \o ":"
              ELSE parts[1].name \o ": " \o Join(parts[1].words)
    ELSE parts[1].name \o ": " \o Join(parts[1].words) \o "\n" \o JobTranscript(Tail(parts))

MaxJobSegs == 3
\* the j-th segment spans Slot(0, j); the i-th item is a word in Slot(0, i)
\* or a punctuation mark without times
JobSegments ==
    UNION {{[j \in 1..n |-> JobSegment(labels[j], Slot(0, j)[1], Slot(0, j)[2], keyed[j])] :
               labels \in [1..n -> {"spk_0", "spk_1"}], keyed \in [1..n -> BOOLEAN]} :
           n \in 1..MaxJobSegs}
JobItems ==
    {[i \in 1..MaxJobSegs |->
         IF timed[i] THEN JobItem(Words[i], Slot(0, i)[1], Slot(0, i)[2])
         ELSE JobItem(".", NoTime, NoTime)] :
        timed \in [1..MaxJobSegs -> BOOLEAN]}
JobNames == {"Ann", "Bob"}

\* Lines 118-137: the speakers are counted and, when no names were given,
\* a name is asked for spk_0 .. spk_{n-1} until it is not empty
JobNameSpeakers ==
    /\ jobname.pc = "names"
    /\ LET n == NumSpeakers(jobname.data) IN
       IF jobname.names_in.given
       THEN jobname' = [jobname EXCEPT !.pc = "segments", !.num_speakers = n,
                                       !.speaker_names = jobname.names_in.map]
       ELSE \E typed \in [1..n -> JobNames] :
               jobname' = [jobname EXCEPT
                   !.pc = "segments", !.num_speakers = n,
                   !.speaker_names = [i \in 1..n |-> [key |-> LabelOrder[i], val |-> typed[i]]]]
    /\ UNCHANGED <<CallVars, history, run, cleaner, transcribe, menu>>

\* Lines 143-166: one turn of the loop over the segments
JobNextSegment ==
    /\ jobname.pc = "segments"
    /\ jobname.k < Len(jobname.data.segments)
    /\ LET segment == jobname.data.segments[jobname.k + 1]
           speaker == segment.speaker_label
           segment_items == SegmentItems(segment, jobname.data.items)
           changes == jobname.current_speaker # NoLabel /\ jobname.current_speaker # speaker
       IN  IF ~segment.has_items
           THEN jobname' = [jobname EXCEPT !.k = @ + 1]
           ELSE jobname' = [jobname EXCEPT
                    !.k = @ + 1,
                    !.transcript_parts =
                        IF changes
                        THEN Append(@, JobBlock(jobname.current_speaker,
                                                jobname.speaker_names, jobname.current_text))
                        ELSE @,
                    !.current_speaker = speaker,
                    !.current_text = (IF changes THEN <<>> ELSE @) \o segment_items]
    /\ UNCHANGED <<CallVars, history, run, cleaner, transcribe, menu>>

\* Lines 168-173: the last block, when it has words, and the joined text
JobFinish ==
    /\ jobname.pc = "segments"
    /\ jobname.k = Len(jobname.data.segments)
    /\ LET parts == IF jobname.current_text # <<>>
                    THEN Append(jobname.transcript_parts,
                                JobBlock(jobname.current_speaker, jobname.speaker_names,
                                         jobname.current_text))
                    ELSE jobname.transcript_parts
       IN  jobname' = [jobname EXCEPT !.pc = "returned", !.transcript_parts = parts,
                                      !.result = JobTranscript(parts)]
    /\ UNCHANGED <<CallVars, history, run, cleaner, transcribe, menu>>

NextJobName == JobNameSpeakers \/ JobNextSegment \/ JobFinish

InitJobName ==
    /\ \E segments \in JobSegments, items \in JobItems, has_count \in BOOLEAN,
          names \in {Given(AliceBob), NotGiven} :
          jobname = [pc |-> "names",
                        data |-> [segments |-> segments, items |-> items,
                                  has_count |-> has_count, speakers_count |-> 2],
                        names_in |-> names, num_speakers |-> 0, speaker_names |-> <<>>,
                        k |-> 0, current_speaker |-> NoLabel, current_text |-> <<>>,
                        transcript_parts |-> <<>>, result |-> ""]
    /\ NoCall
    /\ run = NotRunning
    /\ cleaner = NotRunning
    /\ transcribe = NotRunning
    /\ menu = NotRunning

SpecJobName == InitJobName /\ [][NextJobName]_vars


\* -------------------------------------------------------------- main.py
\* The main menu: a tool is chosen and runs to its end, and the menu is
\* shown again.  run_converter_json is run_converter of
\* convert_json_transcript.py under the name the package gives it.
MenuChoices == {"clean", "transcribe", "convert", "exit", "none"}
MaxMenuLines == 1

\* Lines 56-68: one turn of the loop up to the call of the tool; "none" is a
\* prompt that was left, which the last branch answers with "Invalid choice"
MainMenu ==
    /\ menu.pc = "menu"
    /\ \E choice \in MenuChoices :
          /\ menu' = [menu EXCEPT
                 !.choice = choice,
                 !.pc = IF choice = "exit" THEN "ended"
                        ELSE IF choice = "none" THEN "menu" ELSE "tool",
                 !.status = IF choice = "exit" THEN 0 ELSE @]
          /\ IF choice = "clean"
             THEN \E p \in VttPaths, lines \in SeqsUpTo(VttLines, MaxMenuLines),
                     old \in BOOLEAN :
                     cleaner' = CleanerStarts(p, JoinLines(lines) \o <<NL>>, old)
             ELSE UNCHANGED cleaner
          /\ transcribe' = IF choice = "transcribe" THEN TranscriptionMenuStarts
                           ELSE transcribe
          /\ run' = IF choice = "convert" THEN ConverterStarts ELSE run
    /\ UNCHANGED <<CallVars, history, jobname>>

\* Lines 59, 61 and 63: the tool returned, and the loop goes to its next turn
ToolReturns ==
    /\ menu.pc = "tool"
    /\ \/ menu.choice = "clean" /\ cleaner.pc = "done"
       \/ menu.choice = "transcribe" /\ transcribe.pc = "returned"
       \/ menu.choice = "convert" /\ run.pc = "done"
    /\ menu' = [menu EXCEPT !.pc = "menu"]
    /\ cleaner' = NotRunning
    /\ transcribe' = NotRunning
    /\ run' = NotRunning
    /\ history' = <<>>
    /\ data' = NoResults
    /\ names_in' = NotGiven
    /\ pc' = "idle"
    /\ speaker_segments' = <<>>
    /\ num_speakers' = 0
    /\ speaker_names' = <<>>
    /\ to_name' = <<>>
    /\ speaker_time_ranges' = <<>>
    /\ matched' = <<>>
    /\ speaker_texts' = <<>>
    /\ transcript_parts' = <<>>
    /\ path' = ""
    /\ result' = ""
    /\ UNCHANGED jobname

\* main catches nothing: sys.exit or an exception inside the tool ends the
\* program from within the call of line 63
ToolEnds ==
    /\ menu.pc = "tool"
    /\ menu.choice = "convert" /\ run.pc \in {"exited", "raised"}
    /\ menu' = [menu EXCEPT !.pc = "ended", !.status = run.status]
    /\ UNCHANGED <<CallVars, history, run, cleaner, transcribe, jobname>>

NextMenu ==
    \/ MainMenu \/ ToolReturns \/ ToolEnds
    \/ AskPath \/ CleanTranscript
    \/ ChooseAudio \/ AskSpeakers \/ StartJob \/ RetryJob \/ Report
    \/ ChooseMethod \/ LoadFile \/ Unpack \/ LoadBucket \/ JobSelected \/ Poll \/ Waited
    \/ Convert
    \/ DetermineSpeakers \/ GetSpeakerNames \/ AskName \/ ProcessSegments
    \/ Resume \/ CheckEmpty \/ Save

InitMenu ==
    /\ menu = [pc |-> "menu", choice |-> "", status |-> -1]
    /\ NoCall
    /\ run = NotRunning
    /\ cleaner = NotRunning
    /\ transcribe = NotRunning
    /\ jobname = NotRunning

SpecMenu == InitMenu /\ [][NextMenu]_vars

\* ------------------------------------------------------------------ C1
\* C1 as claimed: a payload without `results` makes the call fail with an
\* error; the call does not return normally.
C1_FailsWithInvalidPayload == ~(~data.has_results /\ pc = "returned")

\* C1 amended: a payload without `results` makes process_transcript return
\* the empty string at once (line 184), before any speaker is counted or
\* named; nothing is raised.
C1_ReturnsEmptyString ==
    (~data.has_results /\ pc # "call") =>
        /\ pc = "returned"
        /\ path = "invalid"
        /\ result = ""
        /\ num_speakers = 0
        /\ Len(speaker_names) = 0

C1_Witness == ~data.has_results /\ pc = "returned" /\ result = ""

\* ------------------------------------------------------------------ C2
\* Hello(0.0-0.5, spk_0), world(0.5-1.0, spk_0), Hi(1.0-1.5, spk_1) in
\* units of half a second, no speaker_labels structure
C2_Payload ==
    Payload("absent", 0, <<>>,
            <<WordItem(0, 1, "spk_0"), WordItem(1, 2, "spk_0"), WordItem(2, 3, "spk_1")>>)

\* C2: for the scenario payload and the map {spk_0: Alice, spk_1: Bob} the
\* call returns "Alice: Hello world\nBob: Hi".
C2_Scenario ==
    (data = C2_Payload /\ names_in = Given(AliceBob) /\ pc = "returned") =>
        result = "Alice: Hello world\nBob: Hi"

\* ------------------------------------------------------------------ C3
\* C3: every pronunciation item that carries its own speaker_label is
\* attributed to exactly that label, also without start_time/end_time, and
\* an item is dropped only if it has neither usable timing nor a label
\* (stated for the payloads without zero times).
C3_DirectLabelWins ==
    (MatcherRan /\ ZeroFree) =>
        \A i \in 1..Len(data.items) :
            IsWord(data.items[i]) =>
                /\ TruthyLabel(data.items[i].speaker_label) =>
                       matched[i] = data.items[i].speaker_label
                /\ matched[i] = "" =>
                       (~HasTiming(data.items[i])
                        /\ ~TruthyLabel(data.items[i].speaker_label))

\* ------------------------------------------------------------------ C4
\* the start of the earliest segment of a speaker; -1 (before every
\* segment) for a speaker without segments
EarliestSegmentStart(segs, speaker) ==
    IF \E j \in 1..Len(segs) : segs[j].speaker_label = speaker
    THEN CHOOSE t \in {segs[j].start_time : j \in {k \in 1..Len(segs) :
                                              segs[k].speaker_label = speaker}} :
             \A j \in 1..Len(segs) :
                 segs[j].speaker_label = speaker => t <= segs[j].start_time
    ELSE -1

\* C4: every speaker that was assigned a word has a block in the output,
\* and the blocks are in increasing order of the speakers' earliest segment
\* start, speakers without segments first (stated for the payloads without
\* zero times).
C4_AllSpeakersEmitted ==
    (MatcherRan /\ ZeroFree) =>
        /\ \A k \in 1..Len(speaker_texts) :
               \E p \in 1..Len(transcript_parts) :
                   transcript_parts[p].speaker = speaker_texts[k].key
        /\ \A p, q \in 1..Len(transcript_parts) :
               p < q => EarliestSegmentStart(speaker_segments, transcript_parts[p].speaker)
                            <= EarliestSegmentStart(speaker_segments, transcript_parts[q].speaker)

\* ------------------------------------------------------- C5, C6 and C7
\* The claims about the matcher are stated on the segment list itself, not
\* on speaker_time_ranges.  A segment counts when its label, start and end
\* pass the tests of lines 307 and 313; an item has usable timing when its
\* start and end pass the test of line 336.
Usable(t) == t \notin {NoTime, 0}

CountedSegments(segs) ==
    {j \in 1..Len(segs) :
        /\ segs[j].speaker_label \notin {NoLabel, ""}
        /\ Usable(segs[j].start_time)
        /\ Usable(segs[j].end_time)}

Candidate(item) ==
    /\ item.type = "pronunciation"
    /\ item.alternatives
    /\ Usable(item.start_time)
    /\ Usable(item.end_time)

Unlabelled(item) == item.speaker_label \in {NoLabel, ""}

MinOf(S) == CHOOSE x \in S : \A y \in S : x <= y

\* the segments that hold the midpoint of the item, and their speakers
HoldsMidpoint(seg, item) ==
    /\ 2 * seg.start_time <= item.start_time + item.end_time
    /\ item.start_time + item.end_time <= 2 * seg.end_time

Holding(segs, item) == {j \in CountedSegments(segs) : HoldsMidpoint(segs[j], item)}

SpeakersOf(segs, J) == {segs[j].speaker_label : j \in J}

\* the position at which a speaker first appears in the segment list
FirstAppearance(segs, speaker) ==
    MinOf({j \in CountedSegments(segs) : segs[j].speaker_label = speaker})

\* the speaker of S that appears first in the segment list
FirstToAppear(segs, S) ==
    CHOOSE s \in S : \A t \in S : FirstAppearance(segs, s) <= FirstAppearance(segs, t)

\* twice the gap between the midpoint of the item and the segment
Gap2(seg, item) ==
    IF item.start_time + item.end_time < 2 * seg.start_time
    THEN 2 * seg.start_time - (item.start_time + item.end_time)
    ELSE IF item.start_time + item.end_time > 2 * seg.end_time
    THEN (item.start_time + item.end_time) - 2 * seg.end_time
    ELSE 0

Nearest(segs, item) ==
    {j \in CountedSegments(segs) :
        \A k \in CountedSegments(segs) : Gap2(segs[j], item) <= Gap2(segs[k], item)}

\* C5 as claimed: a timed, unlabelled word whose midpoint lies in segments
\* of several speakers goes to the speaker of the earliest-declared segment
\* that holds the midpoint (stated for the payloads without zero times).
C5_EarliestDeclaredSegment ==
    (MatcherRan /\ ZeroFree) =>
        \A i \in 1..Len(data.items) :
            (/\ Candidate(data.items[i])
             /\ Unlabelled(data.items[i])
             /\ Cardinality(SpeakersOf(speaker_segments,
                                       Holding(speaker_segments, data.items[i]))) >= 2)
            => matched[i] =
                   speaker_segments[MinOf(Holding(speaker_segments, data.items[i]))].speaker_label

\* C5 amended: such a word goes to the speaker who appears first in the
\* segment list among the speakers with a segment that holds the midpoint,
\* even when a segment of another speaker that holds it is declared earlier
\* (segments with an empty label or an absent or zero time do not count).
C5_FirstSpeakerToAppear ==
    MatcherRan =>
        \A i \in 1..Len(data.items) :
            (/\ Candidate(data.items[i])
             /\ Unlabelled(data.items[i])
             /\ Cardinality(SpeakersOf(speaker_segments,
                                       Holding(speaker_segments, data.items[i]))) >= 2)
            => matched[i] =
                   FirstToAppear(speaker_segments,
                       SpeakersOf(speaker_segments, Holding(speaker_segments, data.items[i])))

\* a word in the overlap of two speakers that does not go to the speaker of
\* the earliest-declared segment holding it
C5_Witness ==
    /\ MatcherRan
    /\ \E i \in 1..Len(data.items) :
          /\ Candidate(data.items[i])
          /\ Unlabelled(data.items[i])
          /\ Cardinality(SpeakersOf(speaker_segments,
                                    Holding(speaker_segments, data.items[i]))) >= 2
          /\ matched[i] = FirstToAppear(speaker_segments,
                 SpeakersOf(speaker_segments, Holding(speaker_segments, data.items[i])))
          /\ matched[i] #
                 speaker_segments[MinOf(Holding(speaker_segments, data.items[i]))].speaker_label

\* C6: a timed, unlabelled word whose midpoint lies in no segment, with at
\* least one valid segment present, goes to the speaker of the segment with
\* the least gap to the midpoint; among several speakers at the least gap,
\* to the one that appears first in the segment list.
C6_NearestSpeaker ==
    MatcherRan =>
        \A i \in 1..Len(data.items) :
            (/\ Candidate(data.items[i])
             /\ Unlabelled(data.items[i])
             /\ Holding(speaker_segments, data.items[i]) = {}
             /\ CountedSegments(speaker_segments) # {})
            => matched[i] =
                   FirstToAppear(speaker_segments,
                       SpeakersOf(speaker_segments, Nearest(speaker_segments, data.items[i])))

\* a word outside every segment, the segments of two speakers at different
\* gaps from it: the nearest segment belongs to one speaker only, and that
\* speaker is not the first to appear in the segment list
C6_Witness ==
    /\ MatcherRan
    /\ \E i \in 1..Len(data.items) :
          /\ Candidate(data.items[i])
          /\ Unlabelled(data.items[i])
          /\ Holding(speaker_segments, data.items[i]) = {}
          /\ Cardinality(SpeakersOf(speaker_segments,
                                    CountedSegments(speaker_segments))) = 2
          /\ SpeakersOf(speaker_segments,
                        Nearest(speaker_segments, data.items[i])) = {matched[i]}
          /\ matched[i] # FirstToAppear(speaker_segments,
                 SpeakersOf(speaker_segments, CountedSegments(speaker_segments)))

\* the segments that hold the item strictly inside
StrictlyInside(seg, item) ==
    seg.start_time < item.start_time /\ item.end_time < seg.end_time

Around(segs, item) == {j \in CountedSegments(segs) : StrictlyInside(segs[j], item)}

\* C7 as claimed: a timed word that lies strictly inside exactly one
\* segment, no segment of another speaker holding its midpoint, goes to the
\* speaker of that segment, also when the word carries a label of its own
\* (stated for the payloads without zero times).
C7_Coverage ==
    (MatcherRan /\ ZeroFree) =>
        \A i \in 1..Len(data.items) :
            (/\ Candidate(data.items[i])
             /\ Cardinality(Around(speaker_segments, data.items[i])) = 1
             /\ Cardinality(SpeakersOf(speaker_segments,
                    Holding(speaker_segments, data.items[i]))) = 1)
            => \A j \in Around(speaker_segments, data.items[i]) :
                   matched[i] = speaker_segments[j].speaker_label

\* C7 amended: a timed word with a label of its own goes to that label,
\* whatever segment it lies in; a timed word without a label whose midpoint
\* lies in segments of exactly one speaker goes to that speaker (so does a
\* word strictly inside exactly one segment, unless a segment of another
\* speaker holds its midpoint).
C7_CoverageOfUnlabelled ==
    MatcherRan =>
        \A i \in 1..Len(data.items) :
            Candidate(data.items[i]) =>
                /\ ~Unlabelled(data.items[i]) => matched[i] = data.items[i].speaker_label
                /\ (/\ Unlabelled(data.items[i])
                    /\ Cardinality(SpeakersOf(speaker_segments,
                           Holding(speaker_segments, data.items[i]))) = 1)
                   => \A j \in Holding(speaker_segments, data.items[i]) :
                          matched[i] = speaker_segments[j].speaker_label

\* an unlabelled word strictly inside exactly one segment, with a segment
\* of another speaker in the list, attributed to the speaker around it
C7_Witness ==
    /\ MatcherRan
    /\ \E i \in 1..Len(data.items) :
          /\ Candidate(data.items[i])
          /\ Unlabelled(data.items[i])
          /\ Cardinality(Around(speaker_segments, data.items[i])) = 1
          /\ Cardinality(SpeakersOf(speaker_segments,
                                    CountedSegments(speaker_segments))) = 2
          /\ \A j \in Around(speaker_segments, data.items[i]) :
                 matched[i] = speaker_segments[j].speaker_label

\* ------------------------------------------------------------------ C8
\* C8: no two consecutive blocks of the returned transcript start with the
\* same display name, whatever the label map.
C8_NoAdjacentSameName ==
    pc = "returned" =>
        \A p \in 1..(Len(OutputBlocks) - 1) :
            OutputBlocks[p].name # OutputBlocks[p + 1].name

\* ------------------------------------------------------------------ C9
\* block assembly left no block although the payload has items
AssemblyEmpty == MatcherRan /\ Len(transcript_parts) = 0 /\ Len(data.items) > 0

\* C9 as claimed: then the result is the single block "Speaker: <words>"
\* with every pronunciation word in item order, whatever the label map.
C9_GenericSpeaker ==
    (AssemblyEmpty /\ Len(AllWords(data.items)) > 0) =>
        result = "Speaker: " \o Join(AllWords(data.items))

\* C9 amended: then the result is a single block with every pronunciation
\* word in item order under the display name of the first entry of the
\* label map, "Speaker" only when the map is empty; it is the empty string
\* when the payload has no pronunciation word.
C9_FirstNameOfMap ==
    AssemblyEmpty =>
        IF Len(AllWords(data.items)) = 0 THEN result = ""
        ELSE result = (IF Len(speaker_names) = 0 THEN "Speaker" ELSE speaker_names[1].val)
                      \o ": " \o Join(AllWords(data.items))

\* the fallback block holds two words under a name other than "Speaker"
C9_Witness ==
    /\ AssemblyEmpty
    /\ Len(AllWords(data.items)) >= 2
    /\ Len(speaker_names) > 0
    /\ speaker_names[1].val # "Speaker"
    /\ result = speaker_names[1].val \o ": " \o Join(AllWords(data.items))

\* ----------------------------------------------------------------- C10
\* the labels of the pronunciation items
WordLabels(items) ==
    {items[i].speaker_label : i \in {k \in 1..Len(items) : IsWord(items[k])}}

\* C10: with speaker_labels present, its segment list empty, and every
\* pronunciation item timed and labelled, the output has one block per
\* item label, under the display name of the label, with exactly the words
\* of that label (stated for the payloads without zero times and a label
\* map supplied by the caller).
C10_GroupedByOwnLabel ==
    (/\ pc = "returned"
     /\ ZeroFree
     /\ names_in.given
     /\ data.has_results
     /\ data.sl \in {"dict", "list"}
     /\ Len(data.segments) = 0
     /\ Len(AllWords(data.items)) > 0
     /\ \A i \in 1..Len(data.items) :
            IsWord(data.items[i]) =>
                (Candidate(data.items[i]) /\ ~Unlabelled(data.items[i])))
    => /\ Len(OutputBlocks) = Cardinality(WordLabels(data.items))
       /\ \A l \in WordLabels(data.items) :
              \E p \in 1..Len(OutputBlocks) :
                  /\ OutputBlocks[p].name = DictGet(speaker_names, l, l)
                  /\ OutputBlocks[p].words = WordsLabelled(data.items, l)

\* ------------------------------------------------------------------ C11
\* C11: for a payload that contains `results`, however malformed its
\* diarization data is, process_transcript never raises; it returns a string.
C11_NeverRaises == data.has_results => pc # "raised"

\* ------------------------------------------------------------------ C12
\* the distinct speaker_label values that occur in the segment list
DistinctLabels(segs) == {segs[j].speaker_label : j \in 1..Len(segs)} \ {NoLabel}

\* C12: a speaker_labels object with speakers_count = 2 and one without a
\* count whose segments carry two distinct speaker_label values both derive
\* num_speakers = 2: once the count is determined, it is 2 in the call at hand
\* and in the call on the twin payload (count given / count left out).
C12_CountDerivation ==
    (/\ pc \notin {"call", "raised"}
     /\ data.sl = "dict"
     /\ data.count \in {0, 2}
     /\ Cardinality(DistinctLabels(data.segments)) = 2) =>
        /\ num_speakers = 2
        /\ Normalize([data EXCEPT !.count = 2 - data.count]).num = 2

C12_Witness ==
    /\ pc = "returned"
    /\ data.sl = "dict" /\ data.count = 0
    /\ Cardinality(DistinctLabels(data.segments)) = 2
    /\ num_speakers = 2

\* ------------------------------------------------------------------ C13
\* C13: for the same items, segments and label map, the payload in the
\* object format (segments, no count) and the payload in the list format
\* (the same segments, and `speakers`) give the same transcript.
C13_ShapeIndependence ==
    (/\ pc = "returned" /\ Len(history) = 1
     /\ names_in.given
     /\ history[1].pc = "returned"
     /\ history[1].data.sl = "dict" /\ data.sl = "list"
     /\ data.segments = history[1].data.segments
     /\ data.items = history[1].data.items) =>
        result = history[1].result

\* ------------------------------------------------------------------ C15
\* the contents of the pronunciation items, in item order
Pronounced(items) ==
    LET words == SelectSeq(items, LAMBDA item : item.type = "pronunciation"
                                                 /\ item.alternatives)
    IN  [i \in 1..Len(words) |-> words[i].content]

\* C15: a payload without speaker_labels whose items carry no speaker_label,
\* processed without a label map, comes back as the single block
\* "Speaker: <word1> <word2> ..." of all its pronunciation words in item order
\* (the payload has at least one pronunciation word).
C15_SingleSpeakerBlock ==
    (/\ pc = "returned"
     /\ data.has_results /\ data.sl = "absent"
     /\ ~names_in.given
     /\ \A i \in 1..Len(data.items) : data.items[i].speaker_label = NoLabel
     /\ Len(Pronounced(data.items)) > 0) =>
        result = "Speaker: " \o Join(Pronounced(data.items))

\* two words, one of them without times, around a punctuation mark
C15_Witness ==
    /\ pc = "returned"
    /\ data.has_results /\ data.sl = "absent" /\ ~names_in.given
    /\ Len(data.items) = 3
    /\ \A i \in 1..3 : data.items[i].speaker_label = NoLabel
    /\ data.items[1].start_time = NoTime
    /\ data.items[2].type = "punctuation"
    /\ result = "Speaker: Hello Hi"

\* ------------------------------------------------------------------ C16
\* the pronunciation items that carry a speaker_label, in item order
LabelledWords(items) ==
    SelectSeq(items, LAMBDA item : item.type = "pronunciation"
                                   /\ item.speaker_label # NoLabel)

\* the positions, among them, at which a maximal run of one label starts
\* and ends
RunStarts(ls) ==
    {k \in 1..Len(ls) : k = 1 \/ ls[k].speaker_label # ls[k - 1].speaker_label}
RunEnds(ls) ==
    {k \in 1..Len(ls) : k = Len(ls) \/ ls[k].speaker_label # ls[k + 1].speaker_label}

\* the j-th smallest number of S
Nth(S, j) == CHOOSE x \in S : Cardinality({y \in S : y <= x}) = j

\* C16: without speaker_labels, and with labelled pronunciation items that
\* carry their times, the synthetic segments are the maximal runs of
\* consecutive same-label pronunciation items (punctuation and unlabelled
\* items neither start nor break a run), in item order, from the start_time
\* of the first item of the run to the end_time of its last item; adjacent
\* synthetic segments differ in their label.
C16_SyntheticSegments ==
    LET ls == LabelledWords(data.items) IN
    (/\ pc \notin {"call", "raised"}
     /\ data.has_results /\ data.sl = "absent"
     /\ Len(ls) > 0
     /\ \A k \in 1..Len(ls) : ls[k].start_time # NoTime /\ ls[k].end_time # NoTime) =>
        /\ Len(speaker_segments) = Cardinality(RunStarts(ls))
        /\ \A j \in 1..Len(speaker_segments) :
               /\ speaker_segments[j].speaker_label = ls[Nth(RunStarts(ls), j)].speaker_label
               /\ speaker_segments[j].start_time = ls[Nth(RunStarts(ls), j)].start_time
               /\ speaker_segments[j].end_time = ls[Nth(RunEnds(ls), j)].end_time
        /\ \A j \in 1..(Len(speaker_segments) - 1) :
               speaker_segments[j].speaker_label # speaker_segments[j + 1].speaker_label

\* two words of spk_0 around an item that is not labelled: one segment, from
\* the start of the first word to the end of the second
C16_Witness ==
    /\ pc = "returned"
    /\ data.has_results /\ data.sl = "absent"
    /\ Len(data.items) = 3
    /\ data.items[1].speaker_label = "spk_0" /\ data.items[1].start_time # NoTime
    /\ data.items[2].speaker_label = NoLabel
    /\ data.items[3].speaker_label = "spk_0" /\ data.items[3].start_time # NoTime
    /\ speaker_segments = <<Segment("spk_0", data.items[1].start_time,
                                              data.items[3].end_time)>>

\* ------------------------------------------------------------------ C17
\* C17: no step of a call changes the payload or the label map the caller
\* supplied; the local speaker_names, which is the caller's dictionary when
\* a map was supplied, is then never written.
C17_Pure ==
    [][/\ data' = data
       /\ names_in' = names_in
       /\ (names_in.given /\ pc = "process") =>
              (speaker_names = names_in.map /\ speaker_names' = speaker_names)]_vars

\* a call with the map {spk_1: Bob} has returned a block of a speaker the
\* map does not hold, and the map is as it was
C17_Witness ==
    /\ pc = "returned" /\ path = "assembled"
    /\ names_in = Given(OnlyBob)
    /\ speaker_names = OnlyBob
    /\ \E p \in 1..Len(transcript_parts) : transcript_parts[p].speaker = "spk_0"

\* ------------------------------------------------------------------ C18
\* the call was made without a label map and is about to process, or has
\* processed, its segments
NamedByTheCall ==
    /\ ~names_in.given
    /\ \/ pc = "process"
       \/ pc = "returned" /\ path \notin {"invalid", "no_speakers"}

\* the non-empty labels of a list of segments or items
NonEmptyLabels(xs) == {xs[i].speaker_label : i \in 1..Len(xs)} \ {NoLabel, ""}

\* the labels that can receive words: those of the segments with their
\* times and those of the pronunciation items with their times
ReceivingLabels ==
    SpeakersOf(data.segments, CountedSegments(data.segments))
    \cup {data.items[i].speaker_label :
              i \in {k \in 1..Len(data.items) :
                         Candidate(data.items[k]) /\ ~Unlabelled(data.items[k])}}

\* C18 as claimed: without a label map, when block assembly starts the map
\* holds a non-empty display name for every label that can receive words,
\* those of the segments and those of the items (stated for the payloads
\* whose words all carry their times).
C18_EveryLabelNamed ==
    (/\ NamedByTheCall /\ ZeroFree
     /\ \A i \in 1..Len(data.items) :
            data.items[i].type = "pronunciation" => Candidate(data.items[i])) =>
        \A l \in ReceivingLabels :
            DictHas(speaker_names, l) /\ DictGet(speaker_names, l, "") \notin {"", " "}

\* C18 amended: without a label map, when block assembly starts,
\* (a) with more than one speaker counted the map holds exactly one display
\*     name, neither empty nor blank, for every distinct non-empty label of
\*     the segment list, or of the items when there is no segment, and for
\*     no other label;
\* (b) with at most one speaker counted the map is the single entry
\*     "Speaker", for the first non-empty label of the segments (spk_0
\*     without one);
\* (c) while a name is asked for, no empty or blank answer has been stored
\*     and the label asked for has no name yet.
C18_NormalizerLabelsNamed ==
    /\ (NamedByTheCall /\ num_speakers > 1) =>
           /\ {speaker_names[i].key : i \in 1..Len(speaker_names)} =
                  (IF Len(speaker_segments) > 0 THEN NonEmptyLabels(speaker_segments)
                                                ELSE NonEmptyLabels(data.items))
           /\ \A i, j \in 1..Len(speaker_names) :
                  speaker_names[i].key = speaker_names[j].key => i = j
           /\ \A i \in 1..Len(speaker_names) : speaker_names[i].val \notin {"", " "}
    /\ (NamedByTheCall /\ num_speakers <= 1) =>
           /\ Len(speaker_names) = 1
           /\ speaker_names[1].val = "Speaker"
           /\ speaker_names[1].key \in NonEmptyLabels(speaker_segments) \cup {"spk_0"}
    /\ pc = "ask" =>
           /\ ~names_in.given
           /\ Len(to_name) > 0
           /\ ~DictHas(speaker_names, Head(to_name))
           /\ \A i \in 1..Len(speaker_names) : speaker_names[i].val \notin {"", " "}

\* both labels of the segments have been named by the user
C18_Witness ==
    /\ pc = "process" /\ ~names_in.given
    /\ num_speakers = 2
    /\ Len(speaker_segments) = 2
    /\ Len(speaker_names) = 2
    /\ speaker_names[1] = [key |-> "spk_0", val |-> "Bo"]
    /\ speaker_names[2] = [key |-> "spk_1", val |-> "Ann"]


\* ------------------------------------------------------------------ C19
\* C19: when the processed transcript is empty, run_converter reports a
\* warning and asks; the output file is written only if the user confirms
\* saving the empty transcript; if the user declines (or leaves the question)
\* no file is written and the run ends with status 0.
C19_EmptyTranscript ==
    /\ (run.pc \in {"save", "done"} /\ run.transcript = "")
           => (run.warned /\ run.answer = "yes")
    /\ \A f \in run.files : f.text = "" => (run.warned /\ run.answer = "yes")
    /\ (run.warned /\ run.answer # "yes")
           => (run.pc = "exited" /\ run.status = 0 /\ run.files = {})
    /\ run.warned => run.transcript = ""

\* process_transcript returned an empty transcript, the user confirmed and
\* the empty file was written
C19_Witness ==
    /\ pc = "returned" /\ result = ""
    /\ run.pc = "done" /\ run.warned /\ run.answer = "yes"
    /\ run.files = {[file |-> run.output_file, text |-> ""]}

\* ------------------------------------------------------------------ C20
\* C20: when the user chooses the conversion from a local file and gives the
\* path of a readable AWS Transcribe JSON file, run_converter obtains the
\* parsed data and the path, no exception leaves it, and a finished run has
\* saved the transcript to <base name>_processed.txt in the directory of the
\* JSON file.
C20_FileConversion ==
    (run.choice = "file" /\ run.file.readable /\ run.file.keys = AwsKeys
        /\ run.pc \notin {"load", "unpack"})
    => /\ run.pc # "raised"
       /\ run.data = [kind |-> "payload", payload |-> run.file.payload, empty |-> FALSE]
       /\ run.output_file = OutputFile(run.file.dir, run.file.stem)
       /\ run.pc = "done"
              => run.files = {[file |-> OutputFile(run.file.dir, run.file.stem),
                               text |-> run.transcript]}

\* ------------------------------------------------------------------ C22
\* The speaker prefixes of the lines of a text: the text before the first
\* colon of every line that has one
SpeakerPrefix(line) == BeforeColon(line)

\* C22: in the output of combine_speaker_lines no two consecutive lines have
\* the same speaker prefix.
C22_NoRepeatedSpeaker ==
    Len(cleaner.results) > 0 =>
        LET out == SplitLines(cleaner.results[1]) IN
        \A i \in 1..(Len(out) - 1) :
            (HasColon(out[i]) /\ HasColon(out[i + 1]))
                => SpeakerPrefix(out[i]) # SpeakerPrefix(out[i + 1])

\* ------------------------------------------------------------------ C29
\* C29: combine_speaker_lines applied to its own output returns that output.
C29_Idempotent ==
    \A k \in 1..(Len(cleaner.results) - 1) : cleaner.results[k + 1] = cleaner.results[k]

\* ------------------------------------------------------------------ C21
\* C21: clean_transcript never writes to its input file: the output path
\* differs from the input path, and the file at the input path still holds
\* the text that was read.
C21_InputLeftUnmodified ==
    (cleaner.pc = "done" /\ cleaner.input_file # <<>>) =>
        /\ cleaner.output_file # cleaner.input_file
        /\ DictGet(cleaner.files, cleaner.input_file, <<>>) = cleaner.content

\* a path without .vtt: the suffix was appended and the cleaned text written
C21_Witness ==
    /\ cleaner.pc = "done"
    /\ cleaner.input_file = <<"t", ".", "t", "x", "t">>
    /\ cleaner.output_file = cleaner.input_file \o Suffix
    /\ DictHas(cleaner.files, cleaner.output_file)
    /\ cleaner.content # <<NL>>
    /\ DictGet(cleaner.files, cleaner.input_file, <<>>) = cleaner.content

\* ------------------------------------------------------------------ C23
\* the contents of the items that the matcher gave to the speaker, in the
\* order of the items in the payload
RECURSIVE WordsGivenTo(_, _, _)
WordsGivenTo(speaker, items, given) ==
    IF Len(items) = 0 THEN <<>>
    ELSE (IF Head(given) = speaker THEN <<Head(items).content>> ELSE <<>>)
         \o WordsGivenTo(speaker, Tail(items), Tail(given))

\* C23: in a transcript built by block assembly every speaker label has at
\* most one block, the block holds all the words given to that speaker in the
\* order of their items, and no word is in more than one block.
C23_OneBlockPerSpeaker ==
    (pc = "returned" /\ path = "assembled") =>
        /\ \A p, q \in 1..Len(transcript_parts) :
               p # q => transcript_parts[p].speaker # transcript_parts[q].speaker
        /\ \A p \in 1..Len(transcript_parts) :
               transcript_parts[p].words
                   = WordsGivenTo(transcript_parts[p].speaker, data.items, matched)
        /\ \A i \in 1..Len(data.items) :
               Cardinality({p \in 1..Len(transcript_parts) :
                               transcript_parts[p].speaker = matched[i]}) <= 1
        /\ result = JoinBlocks(transcript_parts)

\* two blocks, the words of the first speaker around the word of the second
C23_Witness ==
    /\ pc = "returned" /\ path = "assembled"
    /\ Len(transcript_parts) = 2
    /\ Len(data.items) = 3
    /\ matched[1] = transcript_parts[1].speaker
    /\ matched[2] = transcript_parts[2].speaker
    /\ matched[3] = transcript_parts[1].speaker
    /\ Len(transcript_parts[1].words) = 2

\* ------------------------------------------------------------------ C24
\* C24: get_transcript_from_bucket returns transcript data only when the
\* status read last is COMPLETED; the wait loop reads the status again exactly
\* while it is neither COMPLETED nor FAILED; on FAILED, read at the selection
\* or while waiting, the run ends with exit status 1 and no data.
C24_PollUntilTerminal ==
    [][/\ run.choice = "bucket" =>
          /\ (run.pc \in {"job", "wait"} /\ run'.pc = "convert")
                 => (run.job_status = "COMPLETED" /\ run'.data.kind = "payload")
          /\ run'.polls # run.polls
                 => (run.pc = "wait" /\ run.job_status \notin {"COMPLETED", "FAILED"})
          /\ (run.pc = "wait" /\ run.job_status \notin {"COMPLETED", "FAILED"})
                 => (run'.pc = "wait" /\ run'.polls = run.polls + 1)
          /\ (run.pc \in {"job", "wait"} /\ run.job_status = "FAILED")
                 => (run'.pc = "exited" /\ run'.status = 1
                     /\ run'.data = [kind |-> "none"])
      ]_vars

\* the job was in progress, the user waited, and the status read last was
\* COMPLETED when the data came back
C24_Witness ==
    /\ run.choice = "bucket" /\ run.pc = "convert"
    /\ run.polls = 2 /\ run.job_status = "COMPLETED"
    /\ run.data.kind = "payload"

\* C25: start_transcription_job sends at most two start requests.  A second
\* request is sent only after the first one met a ConflictException, and it
\* is the first request with "-<unix time>" added to the job name; when it
\* fails, its exception reaches the caller as it is and nothing more is
\* sent.  Any other failure of the first request is raised as "Failed to
\* start transcription job" and nothing more is sent.
C25_AtMostOneRetry ==
    LET requests == transcribe.requests
        answers == transcribe.answers
    IN  /\ Len(requests) <= 2
        /\ Len(requests) = 2 =>
              /\ answers[1] = "ConflictException"
              /\ \E now \in Clock :
                    requests[2] = [requests[1] EXCEPT
                                      !.TranscriptionJobName = @ \o <<"-">> \o now]
        /\ (Len(answers) >= 1 /\ answers[1] = "ConflictException"
                /\ transcribe.pc # "retry") => Len(requests) = 2
        /\ (Len(answers) = 2 /\ answers[2] # "ok") =>
              /\ transcribe.pc \in {"failed", "returned"}
              /\ transcribe.error = answers[2]
        /\ (Len(answers) >= 1 /\ answers[1] \notin {"ok", "ConflictException"}) =>
              /\ Len(requests) = 1
              /\ transcribe.pc \in {"failed", "returned"}
              /\ transcribe.error = "Failed to start transcription job: " \o answers[1]

\* C25 witness: the retry met a conflict of names too, and the call failed
\* after two requests
C25_Witness ==
    /\ transcribe.pc = "failed"
    /\ Len(transcribe.requests) = 2
    /\ transcribe.answers = <<"ConflictException", "ConflictException">>

\* C26: every start request of run_transcription_menu carries a speaker
\* count between 2 and 30: the integer that was typed when it lies in that
\* range, and 2 for every other input
C26_SpeakerCountInRange ==
    \A i \in 1..Len(transcribe.requests) :
        LET n == IntOf(transcribe.speaker_input)
            count == transcribe.requests[i].MaxSpeakerLabels
        IN  /\ count \in 2..30
            /\ count = IF n.ok /\ n.val \in 2..30 THEN n.val ELSE 2

\* C26 witness: 31 speakers were asked for and the job was started with 2
C26_Witness ==
    /\ transcribe.pc = "started"
    /\ transcribe.speaker_input = <<"3", "1">>
    /\ transcribe.requests[1].MaxSpeakerLabels = 2

\* C27: timing is present when the field is present.  A word with both
\* times, zero included, is attributed (to its own label when it has one,
\* to some speaker when there is a time range at all), and a segment with a
\* label and both times, zero included, has its range registered for its
\* speaker.
C27_ZeroIsATime ==
    MatcherRan =>
        /\ \A i \in 1..Len(data.items) :
               LET item == data.items[i] IN
               (IsWord(item) /\ item.start_time # NoTime /\ item.end_time # NoTime) =>
                   /\ TruthyLabel(item.speaker_label) => matched[i] = item.speaker_label
                   /\ Len(speaker_time_ranges) > 0 => matched[i] # ""
        /\ \A j \in 1..Len(speaker_segments) :
               LET seg == speaker_segments[j] IN
               (TruthyLabel(seg.speaker_label)
                    /\ seg.start_time # NoTime /\ seg.end_time # NoTime) =>
                   \E r \in Range(DictGet(speaker_time_ranges, seg.speaker_label, <<>>)) :
                       r = <<seg.start_time, seg.end_time>>

\* The same statement for the payloads in which no time is zero
C27_ZeroFree == ZeroFree => C27_ZeroIsATime

\* C30: in the transcript of the job-name converter no two blocks that
\* follow each other carry the same speaker label, and every block has at
\* least one word
C30_MergedNonEmptyBlocks ==
    jobname.pc = "returned" =>
        /\ \A p \in 1..(Len(jobname.transcript_parts) - 1) :
               jobname.transcript_parts[p].speaker # jobname.transcript_parts[p + 1].speaker
        /\ \A p \in 1..Len(jobname.transcript_parts) :
               jobname.transcript_parts[p].words # <<>>

\* The part of C30 about the labels alone
C30_NoRepeatedLabel ==
    jobname.pc = "returned" =>
        \A p \in 1..(Len(jobname.transcript_parts) - 1) :
            jobname.transcript_parts[p].speaker # jobname.transcript_parts[p + 1].speaker

\* C28: the toolkit ends only when Exit was chosen in the main menu
C28_EndsOnlyOnExit ==
    menu.pc = "ended" => menu.choice = "exit"

\* The part of C28 about the other two tools: run_cleaner and
\* run_transcription_menu never end the toolkit
C28_CleanerAndTranscriberReturn ==
    menu.pc = "ended" => menu.choice \in {"exit", "convert"}
====
